---------------------------- MODULE Spec2Model ----------------------------
(***************************************************************************)
(* Dual-source fuel-consumption reconciliation and daily price attribution *)
(* of the energy dashboard (src/app.py, calculate_enhanced_fuel_analysis   *)
(* and the functions it calls).                                            *)
(*                                                                         *)
(* Numbers.  pandas works on IEEE doubles; the model works on exact        *)
(* numbers:                                                                *)
(*   - litres are integers counted in centilitres (0.1 L = 10, 1 L = 100); *)
(*     sensor readings are even centilitre counts, so the median of an     *)
(*     even window (the mean of the two middle readings) is a whole count; *)
(*   - prices are rationals [n, d] counted in cents per litre, d > 0 and   *)
(*     n/d in lowest terms; d = 0 encodes the non-finite doubles:          *)
(*     [0,0] is NaN, [1,0] is +inf, [-1,0] is -inf;                        *)
(*   - costs are rationals counted in cent-centilitres (1/10000 rand).     *)
(* Dates are integers yyyymmdd, timestamps are integers yyyymmddhh, so the *)
(* integer order is the chronological order; NaT is the unparsable         *)
(* timestamp.                                                              *)
(***************************************************************************)
EXTENDS Integers, Sequences, FiniteSets, TLC

VARIABLES
    gen_df,                 \* generator table (low resolution)
    gen_detailed_df,        \* detailed generator table
    fuel_history_df,        \* tank-level history table
    fuel_purchases_df,      \* purchase ledger as loaded
    start_date, end_date,   \* date range of the last report call
    pricing_mode,           \* pricing policy of the last report call
    fuel_purchases_clean,   \* cleaned ledger (rows) of the last call
    avg_fuel_price,         \* ledger mean returned by the cleaning
    daily_primary,          \* primary per-day series
    daily_backup,           \* backup per-day series
    state_smooth,           \* the backup extractor's state_smooth column
    daily_combined,         \* reconciled per-day series
    daily_price_series,     \* date -> price mapping
    daily_fuel,             \* emitted DailyFuelRecord rows, ascending date
    stats,                  \* statistics mapping
    fuel_purchases_filtered,\* cleaned ledger rows inside the date range
    selected_pricing_mode,  \* choice of main's 'Fuel Pricing Mode' control
    pc,                     \* "loaded" | "series" | "reported" | "raised"
                            \*   | "attributed"
    now,                    \* seconds since the session started
    memo,                   \* entries of calculate_enhanced_fuel_analysis's
                            \*   st.cache_data memo
    events,                 \* the session's requests and cache clears
    files,                  \* file name -> what reading the file gives
    response,               \* what the remote fetch of New_inverter.csv gives
    requests_sent,          \* number of requests.get calls of the loader
    data                    \* the loader's returned mapping

vars == <<gen_df, gen_detailed_df, fuel_history_df, fuel_purchases_df,
          start_date, end_date, pricing_mode, fuel_purchases_clean,
          avg_fuel_price, daily_primary, daily_backup, state_smooth,
          daily_combined, daily_price_series, daily_fuel, stats,
          fuel_purchases_filtered, selected_pricing_mode, pc,
          now, memo, events, files, response, requests_sent, data>>

memo_vars == <<now, memo, events>>
loader_vars == <<files, response, requests_sent, data>>

-----------------------------------------------------------------------------
(* Exact arithmetic standing for the doubles.                              *)

Abs(x) == IF x < 0 THEN -x ELSE x

RECURSIVE GCD(_, _)
GCD(a, b) == IF b = 0 THEN a ELSE GCD(b, a % b)

NaN == [n |-> 0, d |-> 0]
PosInf == [n |-> 1, d |-> 0]
NegInf == [n |-> -1, d |-> 0]

IsNaN(x) == x.d = 0 /\ x.n = 0
IsFinite(x) == x.d > 0

\* n/d in lowest terms with a positive denominator; x/0 as IEEE division.
Rat(n, d) ==
    IF d = 0 THEN (IF n > 0 THEN PosInf ELSE IF n < 0 THEN NegInf ELSE NaN)
    ELSE LET s == IF d < 0 THEN -1 ELSE 1
             g == GCD(Abs(n), Abs(d))
         IN  [n |-> (s * n) \div g, d |-> (s * d) \div g]

Whole(k) == [n |-> k, d |-> 1]

\* x > k and x < k on doubles: every comparison with NaN is False.
RatGT(x, k) ==
    IF x.d = 0 THEN x.n > 0 ELSE x.n > k * x.d
RatLT(x, k) ==
    IF x.d = 0 THEN x.n < 0 ELSE x.n < k * x.d

RatAdd(x, y) ==
    IF x.d = 0 \/ y.d = 0
    THEN (IF IsNaN(x) \/ IsNaN(y) THEN NaN
          ELSE IF x.d = 0 /\ y.d = 0 /\ x.n # y.n THEN NaN
          ELSE IF x.d = 0 THEN x ELSE y)
    ELSE Rat(x.n * y.d + y.n * x.d, x.d * y.d)

\* litres * price, the litres an integer.
RatScale(k, x) ==
    IF x.d = 0
    THEN (IF IsNaN(x) \/ k = 0 THEN NaN
          ELSE IF k > 0 THEN x ELSE [n |-> -x.n, d |-> 0])
    ELSE Rat(k * x.n, x.d)

RECURSIVE RatSum(_)
RatSum(s) == IF s = <<>> THEN Whole(0) ELSE RatAdd(Head(s), RatSum(Tail(s)))

\* Series.mean(): NaN entries are skipped, the mean of nothing is NaN.
RatMean(s) ==
    LET kept == SelectSeq(s, LAMBDA x: ~IsNaN(x))
        t == RatSum(kept)
    IN  IF kept = <<>> THEN NaN
        ELSE IF t.d = 0 THEN t
        ELSE Rat(t.n, t.d * Len(kept))

RECURSIVE IntSum(_)
IntSum(s) == IF s = <<>> THEN 0 ELSE Head(s) + IntSum(Tail(s))

\* The sum of f over the finite set S.
RECURSIVE SumOver(_, _)
SumOver(S, f) ==
    IF S = {} THEN 0
    ELSE LET x == CHOOSE y \in S : TRUE IN f[x] + SumOver(S \ {x}, f)

Max(a, b) == IF a >= b THEN a ELSE b
Min(a, b) == IF a <= b THEN a ELSE b

\* The ascending sequence of a finite set of integers (sorted(set(...))).
RECURSIVE SortedSeq(_)
SortedSeq(S) ==
    IF S = {} THEN <<>>
    ELSE LET m == CHOOSE x \in S : \A y \in S : x <= y
         IN  <<m>> \o SortedSeq(S \ {m})

\* series.get(date, default)
Get(series, date, default) ==
    IF date \in DOMAIN series THEN series[date] ELSE default

EmptySeries == [d \in {} |-> 0]

-----------------------------------------------------------------------------
(* Dates and timestamps.                                                   *)

NaT == -1
DateOf(ts) == ts \div 100          \* .dt.date
MonthOfYear(date) == (date \div 100) % 100   \* the month without its year
MonthOf(date) == date \div 100     \* .to_period('M'): year and month
Midnight(date) == date * 100       \* pd.to_datetime(date)


-----------------------------------------------------------------------------
(* Sensor tables: sequences of rows                                        *)
(*   [last_changed: timestamp or NaT, entity_id, state: cell]              *)
(* where a cell is [num |-> TRUE, v |-> centilitres] or a non-numeric      *)
(* text [num |-> FALSE, v |-> 0].  A table read from a file that lacks a   *)
(* column has rows without that field.                                     *)

FuelConsumedEntity == "sensor.generator_fuel_consumed"
FuelLevelEntity == "sensor.generator_fuel_level"

Num(v) == [num |-> TRUE, v |-> v]
NonNumeric == [num |-> FALSE, v |-> 0]

\* pd.to_numeric(state, errors='coerce').fillna(0)
ToNumericFillZero(cell) == IF cell.num THEN cell.v ELSE 0

\* df.columns of a table that has rows.
Columns(df) == IF df = <<>> THEN {} ELSE DOMAIN df[1]

\* filter_data_by_date_range comparing timestamps with the midnights of
\* the two dates: the readings taken during the end date are lost.
FilterByTimestamp(df, start, end) ==
    IF df = <<>> \/ "last_changed" \notin Columns(df) THEN df
    ELSE SelectSeq(df, LAMBDA r:
            /\ r.last_changed # NaT
            /\ r.last_changed >= Midnight(start)
            /\ r.last_changed <= Midnight(end))

\* filter_data_by_date_range on the last_changed column: an empty table
\* and a table without the column are returned as they are; a row is kept
\* when its calendar date lies in [start, end]; NaT compares False and is
\* dropped.
filter_data_by_date_range(df, start, end) ==
    IF df = <<>> \/ "last_changed" \notin Columns(df) THEN df
    ELSE SelectSeq(df, LAMBDA r:
            /\ r.last_changed # NaT
            /\ DateOf(r.last_changed) >= start
            /\ DateOf(r.last_changed) <= end)

\* The caller's table after a filter that works on the table itself.
ArgumentFilteredInPlace(df, start, end) ==
    filter_data_by_date_range(df, start, end)

\* The caller's table after filter_data_by_date_range: df = df.copy()
\* precedes every assignment, and the early returns assign nothing.
ArgumentAfterFilter(df, start, end) == df

EntityRows(df, entity) == SelectSeq(df, LAMBDA r: r.entity_id = entity)

\* sort_values('last_changed'): rows with equal timestamps keep their
\* order (numpy sorts arrays this short by insertion).
RECURSIVE InsertByTime(_, _)
InsertByTime(sorted, r) ==
    IF sorted = <<>> THEN <<r>>
    ELSE IF sorted[Len(sorted)].last_changed <= r.last_changed
         THEN Append(sorted, r)
         ELSE Append(InsertByTime(SubSeq(sorted, 1, Len(sorted) - 1), r),
                     sorted[Len(sorted)])

RECURSIVE SortByTime(_)
SortByTime(df) ==
    IF df = <<>> THEN <<>>
    ELSE InsertByTime(SortByTime(SubSeq(df, 1, Len(df) - 1)), df[Len(df)])

\* The coerced readings of a sorted table.
States(rows) == [i \in 1..Len(rows) |-> ToNumericFillZero(rows[i].state)]

\* GroupByDateSum with each difference counted on the date of the earlier of
\* its two readings.
GroupByEarlierDateSum(rows, contrib) ==
    LET dates == {DateOf(rows[i].last_changed) : i \in 1..Len(rows)}
        Of(d) == SelectSeq([i \in 1..Len(rows) |->
                               IF i > 1 /\ DateOf(rows[i - 1].last_changed) = d
                               THEN contrib[i] ELSE 0],
                           LAMBDA x: TRUE)
    IN  [d \in dates |-> IntSum(Of(d))]

\* groupby('date')[col].sum(): one entry per calendar date that has a row;
\* contrib[i] is row i's contribution (0 for the NaN of the first diff).
GroupByDateSum(rows, contrib) ==
    LET dates == {DateOf(rows[i].last_changed) : i \in 1..Len(rows)}
        Of(d) == SelectSeq([i \in 1..Len(rows) |->
                               IF DateOf(rows[i].last_changed) = d
                               THEN contrib[i] ELSE 0],
                           LAMBDA x: TRUE)
    IN  [d \in dates |-> IntSum(Of(d))]

\* Whether extracting an entity's readings from df raises KeyError:
\* df['entity_id'] is evaluated on every table that has rows, and
\* ['last_changed'] and ['state'] once the entity has rows left.
ExtractionRaises(df, entity, start, end) ==
    /\ df # <<>>
    /\ \/ "entity_id" \notin Columns(df)
       \/ /\ EntityRows(filter_data_by_date_range(df, start, end), entity)
                 # <<>>
          /\ ~({"last_changed", "state"} \subseteq Columns(df))

NoiseFloor == 100      \* daily_consumption >= 1.0

\* (-level_change).clip(lower=0) for one pair of consecutive readings.
PrimaryConsumptionDiff(prev, cur) == Max(0, -(cur - prev))

\* PrimaryDaily without the noise filter.
PrimaryDailyUnfiltered(fuel_data) ==
    LET rows == SortByTime(fuel_data)
        st == States(rows)
        contrib == [i \in 1..Len(rows) |->
                       IF i = 1 THEN 0
                       ELSE PrimaryConsumptionDiff(st[i - 1], st[i])]
    IN  GroupByDateSum(rows, contrib)

\* PrimaryDaily keeping only the days strictly above the noise floor.
PrimaryDailyAboveFloor(fuel_data) ==
    LET rows == SortByTime(fuel_data)
        st == States(rows)
        contrib == [i \in 1..Len(rows) |->
                       IF i = 1 THEN 0
                       ELSE PrimaryConsumptionDiff(st[i - 1], st[i])]
        daily == GroupByDateSum(rows, contrib)
        keep == {d \in DOMAIN daily : daily[d] > NoiseFloor}
    IN  [d \in keep |-> daily[d]]

\* The body shared by both branches of compute_primary_consumption, on the
\* target entity's in-range rows.
PrimaryDaily(fuel_data) ==
    LET rows == SortByTime(fuel_data)
        st == States(rows)
        contrib == [i \in 1..Len(rows) |->
                       IF i = 1 THEN 0
                       ELSE PrimaryConsumptionDiff(st[i - 1], st[i])]
        daily == GroupByDateSum(rows, contrib)
        keep == {d \in DOMAIN daily : daily[d] >= NoiseFloor}
    IN  [d \in keep |-> daily[d]]

\* compute_primary_consumption falling back whenever the detailed table
\* yields no day, also when its days were all discarded as noise.
PrimaryFallbackOnNoDay(gen, detailed, start, end) ==
    LET fuel_data ==
            EntityRows(filter_data_by_date_range(detailed, start, end),
                       FuelConsumedEntity)
        fuel_consumed_data ==
            EntityRows(filter_data_by_date_range(gen, start, end),
                       FuelConsumedEntity)
    IN  IF detailed # <<>> /\ fuel_data # <<>>
           /\ PrimaryDaily(fuel_data) # EmptySeries
        THEN PrimaryDaily(fuel_data)
        ELSE IF gen = <<>> THEN EmptySeries
        ELSE IF fuel_consumed_data = <<>> THEN EmptySeries
        ELSE PrimaryDaily(fuel_consumed_data)

compute_primary_consumption(gen, detailed, start, end) ==
    LET fuel_data ==
            EntityRows(filter_data_by_date_range(detailed, start, end),
                       FuelConsumedEntity)
        fuel_consumed_data ==
            EntityRows(filter_data_by_date_range(gen, start, end),
                       FuelConsumedEntity)
    IN  IF detailed # <<>> /\ fuel_data # <<>> THEN PrimaryDaily(fuel_data)
        ELSE IF gen = <<>> THEN EmptySeries
        ELSE IF fuel_consumed_data = <<>> THEN EmptySeries
        ELSE PrimaryDaily(fuel_consumed_data)

\* compute_primary_consumption raises in its detailed branch, or in its
\* fallback branch when the detailed branch did not return.
PrimaryRaises(gen, detailed, start, end) ==
    \/ ExtractionRaises(detailed, FuelConsumedEntity, start, end)
    \/ /\ \/ detailed = <<>>
          \/ EntityRows(filter_data_by_date_range(detailed, start, end),
                        FuelConsumedEntity) = <<>>
       /\ ExtractionRaises(gen, FuelConsumedEntity, start, end)

BackupRaises(history, start, end) ==
    ExtractionRaises(history, FuelLevelEntity, start, end)

Window == 20           \* rolling(window=20, center=True)
DropFloor == 100       \* level_diff < -1
DropCeiling == 3000    \* level_diff > -30
DailyCap == 5000       \* clip(upper=50)

\* The median of a sequence of even length: mean of the two middle values.
RECURSIVE SortInts(_)
SortInts(s) ==
    IF s = <<>> THEN <<>>
    ELSE LET m == CHOOSE i \in 1..Len(s) : \A j \in 1..Len(s) : s[i] <= s[j]
         IN  <<s[m]>> \o SortInts([k \in 1..(Len(s) - 1) |->
                                      IF k < m THEN s[k] ELSE s[k + 1]])

Median(s) ==
    LET o == SortInts(s)
        h == Len(s) \div 2
    IN  IF Len(s) % 2 = 1 THEN o[h + 1] ELSE (o[h] + o[h + 1]) \div 2

\* A rolling median that shrinks its window at the two ends of the series
\* (min_periods=1) instead of leaving the reading as it is.
StateSmoothShrinking(st) ==
    [i \in 1..Len(st) |->
        Median(SubSeq(st, Max(1, i - Window \div 2),
                      Min(Len(st), i + (Window - 1) \div 2)))]

\* rolling(window, center=True).median().fillna(state): the window of
\* position i is [i - Window \div 2, i + (Window - 1) \div 2]; where it
\* does not lie inside the series the rolling value is NaN and the reading
\* itself is used.
StateSmooth(st) ==
    [i \in 1..Len(st) |->
        LET lo == i - Window \div 2
            hi == i + (Window - 1) \div 2
        IN  IF lo >= 1 /\ hi <= Len(st)
            THEN Median(SubSeq(st, lo, hi))
            ELSE st[i]]

\* BackupConsumptionDiff without the lower edge of the band.
BackupConsumptionDiffNoFloor(level_diff) ==
    IF level_diff > -DropCeiling THEN -level_diff ELSE 0

\* BackupConsumptionDiff with both edges of the band counted in.
BackupConsumptionDiffClosedBand(level_diff) ==
    IF level_diff <= -DropFloor /\ level_diff >= -DropCeiling
    THEN -level_diff ELSE 0

\* One level_diff's contribution: -diff when -30 < diff < -1, else 0.
BackupConsumptionDiff(level_diff) ==
    IF level_diff < -DropFloor /\ level_diff > -DropCeiling
    THEN -level_diff ELSE 0

\* The state_smooth column compute_backup_consumption builds: none when
\* it returns before the smoothing.
BackupStateSmooth(history, start, end) ==
    IF history = <<>> THEN <<>>
    ELSE StateSmooth(States(SortByTime(EntityRows(
             filter_data_by_date_range(history, start, end),
             FuelLevelEntity))))

\* compute_backup_consumption without the final clip(upper=50).
BackupUncapped(history, start, end) ==
    LET rows == SortByTime(EntityRows(
                    filter_data_by_date_range(history, start, end),
                    FuelLevelEntity))
        smooth == StateSmooth(States(rows))
        contrib == [i \in 1..Len(rows) |->
                       IF i = 1 THEN 0
                       ELSE BackupConsumptionDiff(smooth[i] - smooth[i - 1])]
    IN  GroupByDateSum(rows, contrib)

\* compute_backup_consumption reading the rows of every entity.
BackupOfEveryEntity(history, start, end) ==
    LET rows == SortByTime(filter_data_by_date_range(history, start, end))
        smooth == StateSmooth(States(rows))
        contrib == [i \in 1..Len(rows) |->
                       IF i = 1 THEN 0
                       ELSE BackupConsumptionDiff(smooth[i] - smooth[i - 1])]
        daily == GroupByDateSum(rows, contrib)
    IN  [d \in DOMAIN daily |-> Min(daily[d], DailyCap)]

compute_backup_consumption(history, start, end) ==
    LET fuel_level_data ==
            EntityRows(filter_data_by_date_range(history, start, end),
                       FuelLevelEntity)
        rows == SortByTime(fuel_level_data)
        smooth == StateSmooth(States(rows))
        contrib == [i \in 1..Len(rows) |->
                       IF i = 1 THEN 0
                       ELSE BackupConsumptionDiff(smooth[i] - smooth[i - 1])]
        daily == GroupByDateSum(rows, contrib)
    IN  IF history = <<>> THEN EmptySeries
        ELSE IF fuel_level_data = <<>> THEN EmptySeries
        ELSE [d \in DOMAIN daily |-> Min(daily[d], DailyCap)]

-----------------------------------------------------------------------------
(* Purchase ledger: [cols: the header names as loaded, rows: sequence of   *)
(*   [date: timestamp or NaT, litres, cost, price_per_litre: rationals]]   *)
(* A cell that is missing or not a number is NaN; a cell of a column the   *)
(* ledger does not have is never read.                                     *)

EmptyFrame == [cols |-> {}, rows |-> <<>>]
IsEmptyFrame(df) == df.cols = {} \/ df.rows = <<>>

\* columns.str.strip().str.lower().str.replace(r'\s+', '_')
\*        .str.replace(r'[()]+', ''), on the header names the model draws.
NormalizeName(raw) ==
    CASE raw = "Date" -> "date"
      [] raw = " date " -> "date"
      [] raw = "Price per Liter" -> "price_per_liter"
      [] raw = "price_per_litre" -> "price_per_litre"
      [] raw = "Amount(Liters)" -> "amountliters"
      [] raw = "Amount (Liters)" -> "amount_liters"
      [] raw = "Liters" -> "liters"
      [] raw = "Cost(Rands)" -> "costrands"
      [] raw = "Cost (Rands)" -> "cost_rands"
      [] raw = "Cost" -> "cost"
      [] OTHER -> raw

\* rename_map.get(c, c)
RenameColumn(c) ==
    CASE c = "amount_liters" -> "litres"
      [] c = "amountliters" -> "litres"
      [] c = "amount" -> "litres"
      [] c = "liters" -> "litres"
      [] c = "costrands" -> "cost"
      [] c = "cost_rands" -> "cost"
      [] c = "price_per_liter" -> "price_per_litre"
      [] OTHER -> c

normalize_purchase_columns(cols) ==
    {RenameColumn(NormalizeName(c)) : c \in cols}

\* The caller's ledger after a renaming done on the ledger itself.
ArgumentRenamedInPlace(df) ==
    [cols |-> normalize_purchase_columns(df.cols), rows |-> df.rows]

\* The caller's ledger after normalize_purchase_columns: an empty ledger is
\* returned untouched, any other is copied before its header is rewritten.
ArgumentAfterNormalize(df) == df

\* cost / litres on doubles.
RatDiv(x, y) ==
    IF IsNaN(x) \/ IsNaN(y) THEN NaN
    ELSE IF x.d = 0 /\ y.d = 0 THEN NaN
    ELSE IF x.d = 0 THEN (IF y.n >= 0 THEN x ELSE [n |-> -x.n, d |-> 0])
    ELSE IF y.d = 0 THEN Whole(0)
    ELSE Rat(x.n * y.d, x.d * y.n)

DefaultPriceCents == 2250    \* 22.50
DefaultPrice == Whole(DefaultPriceCents)
PriceBandHigh == 5000        \* price_per_litre < 50

\* replace([np.inf, -np.inf], np.nan)
ReplaceInf(x) == IF x.d = 0 THEN NaN ELSE x

\* InPriceBand with the upper end let through.
InPriceBandInclusive(price) ==
    RatGT(price, 0) /\ (RatLT(price, PriceBandHigh) \/ price = Whole(5000))

\* The two band filters, price_per_litre > 0 and price_per_litre < 50.
InPriceBand(price) == RatGT(price, 0) /\ RatLT(price, PriceBandHigh)

PricesOf(rows) == [i \in 1..Len(rows) |-> rows[i].price_per_litre]

\* process_fuel_purchases_and_pricing: the cleaned rows and the mean.
process_fuel_purchases_and_pricing(df) ==
    LET cols == normalize_purchase_columns(df.cols)
        dated == SelectSeq(df.rows, LAMBDA r: r.date # NaT)
        derive == /\ "price_per_litre" \notin cols
                  /\ "litres" \in cols
                  /\ "cost" \in cols
        priced == IF derive
                  THEN [i \in 1..Len(dated) |->
                           [dated[i] EXCEPT !.price_per_litre =
                               RatDiv(dated[i].cost, dated[i].litres)]]
                  ELSE dated
        finite == [i \in 1..Len(priced) |->
                      [priced[i] EXCEPT !.price_per_litre =
                          ReplaceInf(priced[i].price_per_litre)]]
        kept == SelectSeq(finite, LAMBDA r: InPriceBand(r.price_per_litre))
    IN  IF IsEmptyFrame(df)
        THEN [clean |-> <<>>, avg_price |-> DefaultPrice]
        ELSE IF "date" \notin cols
        THEN [clean |-> <<>>, avg_price |-> DefaultPrice]
        ELSE IF derive \/ "price_per_litre" \in cols
        THEN [clean |-> kept, avg_price |-> RatMean(PricesOf(kept))]
        ELSE [clean |-> <<>>, avg_price |-> DefaultPrice]

\* sort_values(date_col) of the ledger, equal dates keeping their order.
RECURSIVE InsertByDate(_, _)
InsertByDate(sorted, r) ==
    IF sorted = <<>> THEN <<r>>
    ELSE IF sorted[Len(sorted)].date <= r.date
         THEN Append(sorted, r)
         ELSE Append(InsertByDate(SubSeq(sorted, 1, Len(sorted) - 1), r),
                     sorted[Len(sorted)])

RECURSIVE SortByDate(_)
SortByDate(df) ==
    IF df = <<>> THEN <<>>
    ELSE InsertByDate(SortByDate(SubSeq(df, 1, Len(df) - 1)), df[Len(df)])

\* purchases[purchases[date_col] <= date_dt]
PriorPurchases(purchases, date) ==
    SelectSeq(purchases, LAMBDA r: r.date <= Midnight(date))

\* NearestPriorPrice falling back to the constant instead of the mean.
NearestPriorPriceOrDefault(purchases, date) ==
    LET prior == PriorPurchases(purchases, date)
    IN  IF prior # <<>> THEN prior[Len(prior)].price_per_litre
        ELSE DefaultPrice

\* The nearest_prior branch for one date, on the sorted ledger.
NearestPriorPrice(purchases, date) ==
    LET prior == PriorPurchases(purchases, date)
    IN  IF prior # <<>> THEN prior[Len(prior)].price_per_litre
        ELSE RatMean(PricesOf(purchases))

\* purchases[date_col].dt.to_period('M')
PurchaseMonth(r) == MonthOf(DateOf(r.date))

\* The monthly_average branch for one date.
MonthlyAveragePrice(purchases, date) ==
    LET same == SelectSeq(purchases,
                          LAMBDA r: PurchaseMonth(r) = MonthOf(date))
    IN  IF same # <<>> THEN RatMean(PricesOf(same))
        ELSE RatMean(PricesOf(purchases))

EmptyPrices == [d \in {} |-> NaN]

\* The cleaned ledger after an attribution that sorts the ledger itself.
ArgumentSortedInPlace(clean, mode) == SortByDate(clean)

\* The cleaned ledger after build_daily_price_series: the date parsing, the
\* sort and the month column go to purchases = fuel_purchases_clean.copy().
ArgumentAfterPriceSeries(clean, mode) == clean

build_daily_price_series(clean, all_dates, mode) ==
    LET purchases == SortByDate(clean)
    IN  IF clean = <<>> THEN EmptyPrices
        ELSE IF mode = "nearest_prior"
        THEN [d \in all_dates |-> NearestPriorPrice(purchases, d)]
        ELSE IF mode = "monthly_average"
        THEN [d \in all_dates |-> MonthlyAveragePrice(purchases, d)]
        ELSE EmptyPrices

-----------------------------------------------------------------------------
(* Reconciliation and cost composition, calculate_enhanced_fuel_analysis.  *)

MeaningfulThreshold == 10    \* 0.1

\* CombineSources with the noise-level case resolved to the smaller value.
CombineSourcesMin(primary_val, backup_val) ==
    IF backup_val > MeaningfulThreshold THEN backup_val
    ELSE IF primary_val > MeaningfulThreshold THEN primary_val
    ELSE Min(primary_val, backup_val)

\* CombineSources averaging the two sources when both are meaningful.
CombineSourcesAverage(primary_val, backup_val) ==
    IF backup_val > MeaningfulThreshold /\ primary_val > MeaningfulThreshold
    THEN (primary_val + backup_val) \div 2
    ELSE IF backup_val > MeaningfulThreshold THEN backup_val
    ELSE IF primary_val > MeaningfulThreshold THEN primary_val
    ELSE Max(primary_val, backup_val)

\* The per-date choice between the two sources.
CombineSources(primary_val, backup_val) ==
    IF backup_val > MeaningfulThreshold THEN backup_val
    ELSE IF primary_val > MeaningfulThreshold THEN primary_val
    ELSE Max(primary_val, backup_val)

AllDates(primary, backup) == DOMAIN primary \cup DOMAIN backup

DailyCombined(primary, backup) ==
    [d \in AllDates(primary, backup) |->
        CombineSources(Get(primary, d, 0), Get(backup, d, 0))]

\* IsActiveDay with zero days let through.
IsActiveDayOrZero(litres) == litres >= 0

\* if daily_combined[date] > 0
IsActiveDay(litres) == litres > 0

\* The record appended for one date.
FuelRecord(date, litres, price, primary, backup) ==
    [date |-> date,
     fuel_consumed_liters |-> litres,
     fuel_price_per_liter |-> price,
     daily_cost_rands |-> RatScale(litres, price),
     primary_source |-> Get(primary, date, 0),
     backup_source |-> Get(backup, date, 0)]

\* The loop over all_dates that builds daily_fuel.
DailyFuel(primary, backup, combined, prices, avg_price) ==
    LET dates == SortedSeq(DOMAIN combined)
        active == SelectSeq(dates, LAMBDA d: IsActiveDay(combined[d]))
    IN  [i \in 1..Len(active) |->
            FuelRecord(active[i], combined[active[i]],
                       Get(prices, active[i], avg_price), primary, backup)]

TrendLength == 7

\* tolist()[-7:] whatever the length: a partially filled trend.
TrendPartial(values) ==
    SubSeq(values, Max(1, Len(values) - TrendLength + 1), Len(values))

\* tolist()[-7:] if len >= 7 else []
Trend(values) ==
    IF Len(values) >= TrendLength
    THEN SubSeq(values, Len(values) - TrendLength + 1, Len(values))
    ELSE <<>>

\* The empty dict is [empty |-> TRUE].
EmptyStats == [empty |-> TRUE]

Statistics(records, mode) ==
    LET litres == [i \in 1..Len(records) |-> records[i].fuel_consumed_liters]
        costs == [i \in 1..Len(records) |-> records[i].daily_cost_rands]
        prices == [i \in 1..Len(records) |-> records[i].fuel_price_per_liter]
    IN  IF records = <<>> THEN EmptyStats
        ELSE [empty |-> FALSE,
              total_fuel_liters |-> IntSum(litres),
              total_cost_rands |->
                  RatSum(SelectSeq(costs, LAMBDA x: ~IsNaN(x))),
              average_daily_fuel |-> Rat(IntSum(litres), Len(records)),
              average_cost_per_liter |-> RatMean(prices),
              period_days |-> Len(records),
              pricing_mode |-> mode,
              fuel_consumption_trend |-> Trend(litres),
              cost_trend |-> Trend(costs)]

\* filter_data_by_date_range on the cleaned ledger's date column.
FilterPurchasesByDateRange(clean, start, end) ==
    IF clean = <<>> THEN <<>>
    ELSE SelectSeq(clean, LAMBDA r:
            /\ r.date # NaT
            /\ DateOf(r.date) >= start
            /\ DateOf(r.date) <= end)

\* Lines 910-960 on the two per-day series and the cleaned ledger.
ReconcileAndPrice(primary, backup, clean, avg_price, mode) ==
    /\ daily_combined' = DailyCombined(primary, backup)
    /\ daily_price_series' =
           build_daily_price_series(clean, AllDates(primary, backup), mode)
    /\ daily_fuel' = DailyFuel(primary, backup, daily_combined',
                               daily_price_series', avg_price)
    /\ stats' = Statistics(daily_fuel', mode)

calculate_enhanced_fuel_analysis(start, end, mode) ==
    /\ pc = "loaded"
    /\ start_date' = start
    /\ end_date' = end
    /\ pricing_mode' = mode
    /\ IF \/ PrimaryRaises(gen_df, gen_detailed_df, start, end)
          \/ BackupRaises(fuel_history_df, start, end)
       THEN \* the KeyError leaves the function: nothing is returned
            /\ pc' = "raised"
            /\ UNCHANGED <<fuel_purchases_clean, avg_fuel_price,
                           daily_primary, daily_backup, state_smooth,
                           daily_combined,
                           daily_price_series, daily_fuel, stats,
                           fuel_purchases_filtered>>
       ELSE /\ \E cleaned \in
                   {process_fuel_purchases_and_pricing(fuel_purchases_df)} :
                   /\ fuel_purchases_clean' = cleaned.clean
                   /\ avg_fuel_price' = cleaned.avg_price
            /\ daily_primary' =
                   compute_primary_consumption(gen_df, gen_detailed_df,
                                               start, end)
            /\ daily_backup' =
                   compute_backup_consumption(fuel_history_df, start, end)
            /\ state_smooth' =
                   BackupStateSmooth(fuel_history_df, start, end)
            /\ ReconcileAndPrice(daily_primary', daily_backup',
                                 fuel_purchases_clean', avg_fuel_price', mode)
            /\ fuel_purchases_filtered' =
                   FilterPurchasesByDateRange(fuel_purchases_clean',
                                              start, end)
            /\ pc' = "reported"
    /\ gen_df' = ArgumentAfterFilter(gen_df, start, end)
    /\ gen_detailed_df' = ArgumentAfterFilter(gen_detailed_df, start, end)
    /\ fuel_history_df' = ArgumentAfterFilter(fuel_history_df, start, end)
    /\ fuel_purchases_df' = ArgumentAfterNormalize(fuel_purchases_df)
    /\ UNCHANGED selected_pricing_mode

-----------------------------------------------------------------------------
(* Inputs.  The tables are whatever the files hold; the model draws them   *)
(* from bounded families, each family rich in one table and fixed in the   *)
(* others.                                                                 *)

MaxReadings == 3       \* rows of the table a family varies
MaxPurchases == 2      \* rows of the ledger a family varies

SeqsUpTo(S, n) == UNION {[1..k -> S] : k \in 0..n}

Reading(ts, entity, cell) ==
    [last_changed |-> ts, entity_id |-> entity, state |-> cell]

\* 15 Jan 2025 06:00 and 18:00, 16 Jan 2025 06:00.
SensorTimes == {2025011506, 2025011518, 2025011606}
SensorDates == {20250115, 20250116}

\* 100 L, 99 L, 98.5 L: drops of 0.5, 1 and 1.5 L, and the rises back.
ConsumedLevels == {10000, 9900, 9850}
\* 100, 98, 70 L: differences of -2, -28, -30 and the rises.
TankLevels == {10000, 9800, 7000}

\* A row whose state is no number.
OddRows(entity) == {Reading(2025011518, entity, NonNumeric)}

ConsumedRows ==
    {Reading(t, FuelConsumedEntity, Num(v)) :
        t \in SensorTimes, v \in ConsumedLevels}
    \cup OddRows(FuelConsumedEntity)

LevelRows ==
    {Reading(t, FuelLevelEntity, Num(v)) : t \in SensorTimes, v \in TankLevels}
    \cup OddRows(FuelLevelEntity)

\* A row of another entity and a row whose timestamp does not parse.
OtherEntityRow == Reading(2025011518, "sensor.generator_runtime", Num(9000))
UnparsableRow(entity) == Reading(NaT, entity, Num(9000))

\* Tables that hold such rows, alone and between two rows of the entity.
Interleaved(rows, entity) ==
    {<<UnparsableRow(entity), a, OtherEntityRow, b>> : a \in rows, b \in rows}
    \cup {<<OtherEntityRow>>, <<UnparsableRow(entity)>>}

\* Primary 5 L on 15 Jan and 1 L on 16 Jan.
DetailedFixed ==
    <<Reading(2025011506, FuelConsumedEntity, Num(10000)),
      Reading(2025011518, FuelConsumedEntity, Num(9500)),
      Reading(2025011606, FuelConsumedEntity, Num(9400))>>

\* Primary 2 L on 16 Jan from the low-resolution table.
GeneratorFixed ==
    <<Reading(2025011518, FuelConsumedEntity, Num(9000)),
      Reading(2025011606, FuelConsumedEntity, Num(8800))>>

\* Backup 3 L on 15 Jan and 0 on 16 Jan.
HistoryFixed ==
    <<Reading(2025011506, FuelLevelEntity, Num(10000)),
      Reading(2025011518, FuelLevelEntity, Num(9700)),
      Reading(2025011606, FuelLevelEntity, Num(9700))>>

\* Tank levels read every three hours of 15 Jan 2025 from 06:00 on.
DayHistory(levels) ==
    [i \in 1..Len(levels) |->
        Reading(2025011503 + 3 * i, FuelLevelEntity, Num(levels[i]))]

\* Levels [100, 98, 97, 65, 64]: differences of -2, -1, -32 and -1.
ScenarioBHistory == DayHistory(<<10000, 9800, 9700, 6500, 6400>>)

\* Three drops of 28 L in one day, and two drops of 25 L in one day.
OverCapHistory == DayHistory(<<10000, 7200, 4400, 1600>>)
AtCapHistory == DayHistory(<<10000, 7500, 5000>>)

ScenarioHistories == {ScenarioBHistory, OverCapHistory, AtCapHistory}

\* A table that holds no row of either target entity.
RuntimeOnly == <<OtherEntityRow>>

ColumnNames == {"last_changed", "entity_id", "state"}

\* The table as read from a file that lacks column c.
WithoutColumn(df, c) ==
    [i \in 1..Len(df) |-> [k \in DOMAIN df[i] \ {c} |-> df[i][k]]]

LackingColumn(tables) ==
    {WithoutColumn(t, c) : t \in tables, c \in ColumnNames}

Purchase(date, litres, cost, price) ==
    [date |-> date, litres |-> litres, cost |-> cost,
     price_per_litre |-> price]

Priced(date, cents) == Purchase(date, NaN, NaN, Whole(cents))

PricedHeader == {"Date", "Price per Liter"}
CostHeader == {" date ", "Amount(Liters)", "Cost (Rands)"}

\* 20 Dec 2024, 10 Jan 2025, 16 Jan 2025 at 00:00 and at 08:00,
\* 20 Jan 2025, 5 Jan 2026.
PurchaseTimes == {2024122000, 2025011000, 2025011600, 2025011608,
                  2025012000, 2026010500}

\* 15.00 and 22.00 inside the band, 1000.00 outside.
AttributionPrices == {1500, 2200, 100000}

\* The band's two ends, both sides of it, and a cell that is no number.
CleaningPrices == {Whole(1500), Whole(2250), Whole(0), Whole(-500),
                   Whole(5000), Whole(100000), NaN}

\* price_per_liter values [15, 22, 1000, -5, 22.5].
ScenarioLedger ==
    [cols |-> PricedHeader,
     rows |-> <<Priced(2025011000, 1500), Priced(2025011000, 2200),
                Priced(2025011000, 100000), Priced(2025011000, -500),
                Priced(2025011000, 2250)>>]

AttributionLedgers ==
    {[cols |-> PricedHeader, rows |-> r] :
        r \in SeqsUpTo({Priced(t, c) :
                           t \in PurchaseTimes, c \in AttributionPrices},
                       MaxPurchases)}

CleaningLedgers ==
    {[cols |-> PricedHeader, rows |-> r] :
        r \in SeqsUpTo({Purchase(t, NaN, NaN, c) :
                           t \in {2025011000, NaT}, c \in CleaningPrices},
                       MaxPurchases)}

\* Ledgers that carry cost and litres and no price: 880.00 / 40 L = 22.00,
\* 100.00 / 3 L, and a division by zero.
CostLedgers ==
    {[cols |-> CostHeader, rows |-> r] :
        r \in SeqsUpTo({Purchase(2025011000, Whole(l), Whole(c), NaN) :
                           l \in {0, 3, 40}, c \in {0, 10000, 88000}},
                       MaxPurchases)}

FullHeader == {"Date", "Amount(Liters)", "Cost (Rands)", "Price per Liter"}

\* Ledgers with all four columns whose rows carry a price, or cost and
\* litres with an empty price cell, or all three.
MixedLedgers ==
    {[cols |-> FullHeader, rows |-> r] :
        r \in SeqsUpTo({Purchase(2025011000, NaN, NaN, Whole(1500)),
                        Purchase(2025011000, Whole(40), Whole(88000), NaN),
                        Purchase(2025011000, Whole(40), Whole(88000),
                                 Whole(2200))},
                       MaxPurchases)}

\* Ledgers without a date column, and without any price information.
BareLedgers ==
    {[cols |-> {"Amount(Liters)", "Cost(Rands)"},
      rows |-> <<Purchase(NaT, Whole(40), Whole(88000), NaN)>>],
     [cols |-> {"Date", "Supplier"},
      rows |-> <<Purchase(2025011000, NaN, NaN, NaN)>>]}

LedgerFixed ==
    [cols |-> PricedHeader,
     rows |-> <<Priced(2025011000, 2200), Priced(2025012000, 1500)>>]

DateRanges ==
    {<<20250115, 20250115>>, <<20250115, 20250116>>,
     <<20250116, 20250116>>, <<20250116, 20250115>>}

PricingModes == {"nearest_prior", "monthly_average"}

\* pricing_mode="nearest_prior" in the signature; the control's index=0.
DefaultPricingMode == "nearest_prior"

PrimaryFocus ==
    /\ gen_detailed_df \in
           SeqsUpTo(ConsumedRows, MaxReadings)
           \cup Interleaved(ConsumedRows, FuelConsumedEntity)
    /\ gen_df = GeneratorFixed
    /\ fuel_history_df = HistoryFixed
    /\ fuel_purchases_df = LedgerFixed

BackupFocus ==
    /\ fuel_history_df \in
           SeqsUpTo(LevelRows, MaxReadings)
           \cup Interleaved(LevelRows, FuelLevelEntity)
    /\ gen_detailed_df = DetailedFixed
    /\ gen_df = <<>>
    /\ fuel_purchases_df = LedgerFixed

LedgerFocus ==
    /\ gen_detailed_df = DetailedFixed
    /\ gen_df = <<>>
    /\ fuel_history_df = HistoryFixed
    /\ fuel_purchases_df \in
           AttributionLedgers \cup CleaningLedgers \cup CostLedgers
           \cup MixedLedgers \cup BareLedgers \cup {ScenarioLedger}

\* Every table either missing or the fixed one.
SparseFocus ==
    /\ gen_detailed_df \in {<<>>, DetailedFixed}
    /\ gen_df \in {<<>>, GeneratorFixed}
    /\ fuel_history_df \in {<<>>, HistoryFixed}
    /\ fuel_purchases_df \in {EmptyFrame, LedgerFixed}

\* The tank-level history is one of the scenario days.
ScenarioFocus ==
    /\ fuel_history_df \in ScenarioHistories
    /\ gen_detailed_df \in {<<>>, DetailedFixed}
    /\ gen_df = <<>>
    /\ fuel_purchases_df = LedgerFixed

\* Sensor tables that lack a column, with and without rows of the target
\* entity, and ledgers that lack columns.
ColumnsFocus ==
    /\ gen_detailed_df \in
           {<<>>, DetailedFixed} \cup LackingColumn({DetailedFixed, RuntimeOnly})
    /\ gen_df \in {<<>>, GeneratorFixed} \cup LackingColumn({GeneratorFixed})
    /\ fuel_history_df \in
           {HistoryFixed} \cup LackingColumn({HistoryFixed, RuntimeOnly})
    /\ fuel_purchases_df \in {LedgerFixed} \cup BareLedgers

\* The memo of a session that has just started.
SessionStart ==
    /\ now = 0
    /\ memo = {}
    /\ events = <<>>

\* The loader has not run; no data file is present and the remote host does
\* not answer.
NotLoaded == [loaded |-> FALSE]

NothingLoaded ==
    /\ files = [name \in {} |-> "missing"]
    /\ response = "exception"
    /\ requests_sent = 0
    /\ data = NotLoaded

NoReportYet ==
    /\ start_date = 0
    /\ end_date = 0
    /\ pricing_mode = ""
    /\ fuel_purchases_clean = <<>>
    /\ avg_fuel_price = NaN
    /\ state_smooth = <<>>
    /\ daily_combined = EmptySeries
    /\ daily_price_series = EmptyPrices
    /\ daily_fuel = <<>>
    /\ stats = EmptyStats
    /\ fuel_purchases_filtered = <<>>

Init ==
    /\ \/ PrimaryFocus \/ BackupFocus \/ LedgerFocus \/ SparseFocus
       \/ ScenarioFocus \/ ColumnsFocus
    /\ daily_primary = EmptySeries
    /\ daily_backup = EmptySeries
    /\ NoReportYet
    /\ selected_pricing_mode = DefaultPricingMode
    /\ pc = "loaded"
    /\ SessionStart
    /\ NothingLoaded

\* A call of calculate_enhanced_fuel_analysis by any caller: every date
\* range and either policy.
Next ==
    \E range \in DateRanges, mode \in PricingModes :
        /\ calculate_enhanced_fuel_analysis(range[1], range[2], mode)
        /\ UNCHANGED <<memo_vars, loader_vars>>

Spec == Init /\ [][Next]_vars

-----------------------------------------------------------------------------
(* A run of main: the user sets the sidebar's 'Fuel Pricing Mode' control, *)
(* then the report is computed for the chosen date range.                  *)

InitMain ==
    /\ LedgerFocus \/ SparseFocus
    /\ daily_primary = EmptySeries
    /\ daily_backup = EmptySeries
    /\ NoReportYet
    /\ selected_pricing_mode = DefaultPricingMode
    /\ pc = "loaded"
    /\ SessionStart
    /\ NothingLoaded

\* pricing_mode = st.selectbox("Fuel Pricing Mode", ...)
SelectPricingMode(mode) ==
    /\ pc = "loaded"
    /\ selected_pricing_mode # mode
    /\ selected_pricing_mode' = mode
    /\ UNCHANGED <<gen_df, gen_detailed_df, fuel_history_df,
                   fuel_purchases_df, start_date, end_date, pricing_mode,
                   fuel_purchases_clean, avg_fuel_price, daily_primary,
                   daily_backup, state_smooth, daily_combined,
                   daily_price_series, daily_fuel, stats,
                   fuel_purchases_filtered, pc, memo_vars, loader_vars>>

\* The call of main: four tables and the two dates, no pricing_mode
\* argument, so the parameter takes its default.
ProcessData(start, end) ==
    /\ calculate_enhanced_fuel_analysis(start, end, DefaultPricingMode)
    /\ UNCHANGED <<memo_vars, loader_vars>>

NextMain ==
    \/ \E mode \in PricingModes : SelectPricingMode(mode)
    \/ \E range \in DateRanges : ProcessData(range[1], range[2])

SpecMain == InitMain /\ [][NextMain]_vars

-----------------------------------------------------------------------------
(* Reports over more than a week.  The tank level is read at 06:00 of each *)
(* of MaxDays consecutive days from 10 Jan 2025; on the days of `active'   *)
(* the level has dropped since the day before, by an amount that differs   *)
(* from day to day (2.2 L, 2.3 L, ...), on the other days it has not moved.*)

MaxDays == 9

DayDrop(k) == 200 + 10 * k

WeekHistory(active) ==
    [k \in 1..MaxDays |->
        Reading((20250109 + k) * 100 + 6, FuelLevelEntity,
                Num(10000 - SumOver({j \in active : j <= k},
                                    [j \in active |-> DayDrop(j)])))]

WeekHistories == {WeekHistory(active) : active \in SUBSET (2..MaxDays)}

\* The range starts on the first, second, third or fourth day and ends
\* after the last.
WeekRanges ==
    {<<start, 20250131>> :
        start \in {20250110, 20250111, 20250112, 20250113}}

InitWeek ==
    /\ fuel_history_df \in WeekHistories
    /\ gen_detailed_df = <<>>
    /\ gen_df = <<>>
    /\ fuel_purchases_df = LedgerFixed
    /\ daily_primary = EmptySeries
    /\ daily_backup = EmptySeries
    /\ NoReportYet
    /\ selected_pricing_mode = DefaultPricingMode
    /\ pc = "loaded"
    /\ SessionStart
    /\ NothingLoaded

NextWeek ==
    \E range \in WeekRanges, mode \in PricingModes :
        /\ calculate_enhanced_fuel_analysis(range[1], range[2], mode)
        /\ UNCHANGED <<memo_vars, loader_vars>>

SpecWeek == InitWeek /\ [][NextWeek]_vars

-----------------------------------------------------------------------------
(* Histories long enough for the rolling median.  The tank level is read   *)
(* every hour of 15 Jan 2025 from 00:00; it stands at 100 L except for one *)
(* reading that dips (shape "dip"), or from one reading on (shape "step"). *)

MaxSamples == 21

SmoothHistory(len, at, shape, size) ==
    [k \in 1..len |->
        Reading(2025011500 + (k - 1), FuelLevelEntity,
                Num(IF (shape = "dip" /\ k = at) \/ (shape = "step" /\ k >= at)
                    THEN 10000 - size ELSE 10000))]

\* One sample short of a window, and windows with 1 and 2 positions.
SmoothHistories ==
    {SmoothHistory(len, at, shape, size) :
        len \in (MaxSamples - 2)..MaxSamples, at \in 1..MaxSamples,
        shape \in {"dip", "step"}, size \in {200, 2800}}

InitSmooth ==
    /\ fuel_history_df \in SmoothHistories
    /\ gen_detailed_df = <<>>
    /\ gen_df = <<>>
    /\ fuel_purchases_df = LedgerFixed
    /\ daily_primary = EmptySeries
    /\ daily_backup = EmptySeries
    /\ NoReportYet
    /\ selected_pricing_mode = DefaultPricingMode
    /\ pc = "loaded"
    /\ SessionStart
    /\ NothingLoaded

NextSmooth ==
    \E range \in {<<20250115, 20250115>>, <<20250114, 20250116>>},
       mode \in PricingModes :
        /\ calculate_enhanced_fuel_analysis(range[1], range[2], mode)
        /\ UNCHANGED <<memo_vars, loader_vars>>

SpecSmooth == InitSmooth /\ [][NextSmooth]_vars

-----------------------------------------------------------------------------
(* The reconcile-and-price step on its own: the two per-day series and the *)
(* cleaned ledger are drawn directly, so that the policy is exercised on   *)
(* every combination of magnitudes around the 0.1 threshold.               *)

\* 0, 0.02, 0.05, 0.1, 0.11, 3 and 5 litres.
SeriesValues == {0, 2, 5, 10, 11, 300, 500}

SeriesOver(dates, values) == UNION {[S -> values] : S \in SUBSET dates}

InitSeries ==
    /\ gen_df = <<>>
    /\ gen_detailed_df = <<>>
    /\ fuel_history_df = <<>>
    /\ fuel_purchases_df \in {EmptyFrame, LedgerFixed}
    /\ start_date = 20250115
    /\ end_date = 20250116
    /\ daily_primary \in SeriesOver(SensorDates, SeriesValues)
    /\ daily_backup \in SeriesOver(SensorDates, SeriesValues)
    /\ state_smooth = <<>>
    /\ pricing_mode = ""
    /\ fuel_purchases_clean =
           process_fuel_purchases_and_pricing(fuel_purchases_df).clean
    /\ avg_fuel_price =
           process_fuel_purchases_and_pricing(fuel_purchases_df).avg_price
    /\ daily_combined = EmptySeries
    /\ daily_price_series = EmptyPrices
    /\ daily_fuel = <<>>
    /\ stats = EmptyStats
    /\ fuel_purchases_filtered = <<>>
    /\ selected_pricing_mode = DefaultPricingMode
    /\ pc = "series"
    /\ SessionStart
    /\ NothingLoaded

Reconcile(mode) ==
    /\ pc = "series"
    /\ pricing_mode' = mode
    /\ ReconcileAndPrice(daily_primary, daily_backup, fuel_purchases_clean,
                         avg_fuel_price, mode)
    /\ pc' = "reported"
    /\ UNCHANGED <<gen_df, gen_detailed_df, fuel_history_df,
                   fuel_purchases_df, start_date, end_date,
                   fuel_purchases_clean, avg_fuel_price, daily_primary,
                   daily_backup, state_smooth, fuel_purchases_filtered,
                   selected_pricing_mode, memo_vars, loader_vars>>

NextReconcile == \E mode \in PricingModes : Reconcile(mode)

SpecReconcile == InitSeries /\ [][NextReconcile]_vars

-----------------------------------------------------------------------------
(* A report followed by further attributions of the cleaned ledger it      *)
(* produced, each under the other policy.                                  *)

AttributeAgain(mode) ==
    /\ pc \in {"reported", "attributed"}
    /\ mode # pricing_mode
    /\ pricing_mode' = mode
    /\ daily_price_series' =
           build_daily_price_series(fuel_purchases_clean,
                                    DOMAIN daily_combined, mode)
    /\ fuel_purchases_clean' =
           ArgumentAfterPriceSeries(fuel_purchases_clean, mode)
    /\ pc' = "attributed"
    /\ UNCHANGED <<gen_df, gen_detailed_df, fuel_history_df,
                   fuel_purchases_df, start_date, end_date, avg_fuel_price,
                   daily_primary, daily_backup, state_smooth, daily_combined,
                   daily_fuel, stats, fuel_purchases_filtered,
                   selected_pricing_mode, memo_vars, loader_vars>>

NextAttribute ==
    \/ \E range \in DateRanges, mode \in PricingModes :
           /\ calculate_enhanced_fuel_analysis(range[1], range[2], mode)
           /\ UNCHANGED <<memo_vars, loader_vars>>
    \/ \E mode \in PricingModes : AttributeAgain(mode)

SpecAttribute == InitMain /\ [][NextAttribute]_vars

-----------------------------------------------------------------------------
(* A session of main.  Requests for the fuel analysis go through the memo  *)
(* that st.cache_data(ttl=600) puts around the function; the sidebar's     *)
(* Refresh Data button and a successful Data Manager download clear it.    *)
(* Time passes between the script's runs.                                  *)

Ttl == 600
MaxClock == 900
MaxEvents == 3

\* Half the ttl and the whole of it.
TimeSteps == {Ttl \div 2, Ttl}

\* The arguments of the call, in the order of the signature.
MemoKey(start, end, mode) ==
    <<gen_df, fuel_history_df, fuel_purchases_df, gen_detailed_df,
      start, end, mode>>

\* Live with the entry still served at the age of ttl seconds.
LiveThroughTtl(entry, t) == t - entry.stored_at <= Ttl

\* ttl=600: an entry is served while its age is below 600 seconds.
Live(entry, t) == t - entry.stored_at < Ttl

Lookup(m, key, t) == {e \in m : e.key = key /\ Live(e, t)}

Store(m, key, t, value) ==
    {e \in m : e.key # key}
    \cup {[key |-> key, stored_at |-> t, value |-> value]}

\* A clear that drops nothing.
CacheKept(m) == m

\* st.cache_data.clear()
ClearCache(m) == {}

\* The memo returns the stored outputs; the function body does not run.
AnswerFromMemo(entry, start, end, mode) ==
    /\ daily_fuel' = entry.value.daily_fuel
    /\ stats' = entry.value.stats
    /\ fuel_purchases_filtered' = entry.value.fuel_purchases_filtered
    /\ start_date' = start
    /\ end_date' = end
    /\ pricing_mode' = mode
    /\ pc' = "reported"
    /\ UNCHANGED <<gen_df, gen_detailed_df, fuel_history_df,
                   fuel_purchases_df, fuel_purchases_clean, avg_fuel_price,
                   daily_primary, daily_backup, state_smooth, daily_combined,
                   daily_price_series, selected_pricing_mode, memo>>

\* A call of the memoised function.  An exception stores nothing.
RequestFuelAnalysis(start, end, mode) ==
    /\ pc = "loaded"
    /\ Len(events) < MaxEvents
    /\ LET key == MemoKey(start, end, mode)
           hits == Lookup(memo, key, now)
       IN  IF hits # {}
           THEN /\ \E e \in hits : AnswerFromMemo(e, start, end, mode)
                /\ events' = Append(events, [type |-> "memo", key |-> key,
                                             at |-> now])
           ELSE /\ calculate_enhanced_fuel_analysis(start, end, mode)
                /\ memo' =
                       IF pc' = "reported"
                       THEN Store(memo, key, now,
                                  [daily_fuel |-> daily_fuel',
                                   stats |-> stats',
                                   fuel_purchases_filtered |->
                                       fuel_purchases_filtered'])
                       ELSE memo
                /\ events' = Append(events, [type |-> "computed",
                                             key |-> key, at |-> now])
    /\ UNCHANGED <<now, loader_vars>>

\* The script runs again from the top.
Rerun ==
    /\ pc \in {"reported", "raised"}
    /\ pc' = "loaded"
    /\ UNCHANGED <<gen_df, gen_detailed_df, fuel_history_df,
                   fuel_purchases_df, start_date, end_date, pricing_mode,
                   fuel_purchases_clean, avg_fuel_price, daily_primary,
                   daily_backup, state_smooth, daily_combined,
                   daily_price_series, daily_fuel, stats,
                   fuel_purchases_filtered, selected_pricing_mode,
                   memo_vars, loader_vars>>

Tick(dt) ==
    /\ now + dt <= MaxClock
    /\ now' = now + dt
    /\ UNCHANGED <<gen_df, gen_detailed_df, fuel_history_df,
                   fuel_purchases_df, start_date, end_date, pricing_mode,
                   fuel_purchases_clean, avg_fuel_price, daily_primary,
                   daily_backup, state_smooth, daily_combined,
                   daily_price_series, daily_fuel, stats,
                   fuel_purchases_filtered, selected_pricing_mode, pc,
                   memo, events, loader_vars>>

\* if st.button("Refresh Data"): st.cache_data.clear(); st.rerun()
RefreshData ==
    /\ pc = "loaded"
    /\ Len(events) < MaxEvents
    /\ memo' = ClearCache(memo)
    /\ events' = Append(events, [type |-> "clear", at |-> now])
    /\ UNCHANGED <<gen_df, gen_detailed_df, fuel_history_df,
                   fuel_purchases_df, start_date, end_date, pricing_mode,
                   fuel_purchases_clean, avg_fuel_price, daily_primary,
                   daily_backup, state_smooth, daily_combined,
                   daily_price_series, daily_fuel, stats,
                   fuel_purchases_filtered, selected_pricing_mode, pc,
                   now, loader_vars>>

\* A Data Manager button for the purchase ledger's file: on status 200 the
\* file is written and the caches are cleared, and the ledger of the runs that
\* follow is the downloaded one; any other status, or an exception, changes
\* nothing.
DownloadResults == {"200", "404", "exception"}

DataManagerDownload(result, contents) ==
    /\ pc = "loaded"
    /\ Len(events) < MaxEvents
    /\ IF result = "200"
       THEN /\ fuel_purchases_df' = contents
            /\ memo' = ClearCache(memo)
            /\ events' = Append(events, [type |-> "clear", at |-> now])
       ELSE /\ events' = Append(events, [type |-> "failed", at |-> now])
            /\ UNCHANGED <<fuel_purchases_df, memo>>
    /\ UNCHANGED <<gen_df, gen_detailed_df, fuel_history_df,
                   start_date, end_date, pricing_mode,
                   fuel_purchases_clean, avg_fuel_price, daily_primary,
                   daily_backup, state_smooth, daily_combined,
                   daily_price_series, daily_fuel, stats,
                   fuel_purchases_filtered, selected_pricing_mode, pc,
                   now, loader_vars>>

SessionLedgers == {LedgerFixed, ScenarioLedger}
\* Two ranges under the default policy, one of them under the other too.
SessionRequests ==
    {<<20250115, 20250116, "nearest_prior">>,
     <<20250115, 20250116, "monthly_average">>,
     <<20250115, 20250115, "nearest_prior">>}

InitSession ==
    /\ gen_detailed_df = DetailedFixed
    /\ gen_df = GeneratorFixed
    /\ fuel_history_df = HistoryFixed
    /\ fuel_purchases_df \in SessionLedgers
    /\ daily_primary = EmptySeries
    /\ daily_backup = EmptySeries
    /\ NoReportYet
    /\ selected_pricing_mode = DefaultPricingMode
    /\ pc = "loaded"
    /\ SessionStart
    /\ NothingLoaded

NextSession ==
    \/ \E request \in SessionRequests :
           RequestFuelAnalysis(request[1], request[2], request[3])
    \/ Rerun
    \/ \E dt \in TimeSteps : Tick(dt)
    \/ RefreshData
    \/ \E result \in DownloadResults, contents \in SessionLedgers :
           DataManagerDownload(result, contents)

SpecSession == InitSession /\ [][NextSession]_vars

-----------------------------------------------------------------------------
(* load_all_energy_data_silent.  Reading a file gives rows, an empty       *)
(* table, or an exception (the file is missing or cannot be parsed).  A    *)
(* loaded table is the list of the files it came from.                     *)

FileStatus == {"missing", "unreadable", "empty", "rows"}

GeneratorCandidates == <<"gen (2).csv", "gen (2).xlsx", "gen.csv", "gen.xlsx">>
HistoryCandidates ==
    <<"history (5).csv", "history (5).xlsx", "history.csv", "history.xlsx">>
FactoryCandidates ==
    <<"FACTORY ELEC.csv", "FACTORY ELEC.xlsx", "factory.csv", "factory.xlsx">>
PurchaseCandidates ==
    <<"Durr bottling Generator filling.xlsx", "fuel_purchases.xlsx",
      "fuel.xlsx">>
SolarCandidates == <<"New_inverter.csv", "New_inverter.xlsx">>
legacy_files ==
    <<"Solar_Goodwe&Fronius-Jan.csv", "Solar_goodwe&Fronius_April.csv",
      "Solar_goodwe&Fronius_may.csv">>

github_url ==
    "https://raw.githubusercontent.com/Saint-Akim/Solar-performance/main/New_inverter.csv"

Range(seq) == {seq[i] : i \in 1..Len(seq)}

FileNames ==
    Range(GeneratorCandidates) \cup Range(HistoryCandidates)
    \cup Range(FactoryCandidates) \cup Range(PurchaseCandidates)
    \cup Range(SolarCandidates) \cup Range(legacy_files)

\* The remote fetch: requests.get raises (connection error, or no answer
\* within timeout=10), or answers with a status; a 200 body parses to rows,
\* parses to an empty table, or makes read_csv raise.
Responses ==
    {"exception", "timeout", "404", "500",
     "200 rows", "200 empty", "200 unparsable"}

FrameOf(name) == <<[from |-> name]>>

\* load_any: the first candidate that reads to a non-empty table; an
\* exception or an empty table moves on to the next candidate.
RECURSIVE load_any(_, _)
load_any(fs, name_candidates) ==
    IF name_candidates = <<>> THEN <<>>
    ELSE IF fs[Head(name_candidates)] = "rows"
         THEN FrameOf(Head(name_candidates))
         ELSE load_any(fs, Tail(name_candidates))

\* df['source_file'] = ...; df['system_type'] = ...
Tagged(df, source_file, system_type) ==
    [i \in 1..Len(df) |->
        [from |-> df[i].from, source_file |-> source_file,
         system_type |-> system_type]]

\* The fetch used whatever the local files give.
FetchAlways(solar_local) == TRUE

\* if solar_local.empty: the fetch is attempted.
FetchAttempted(solar_local) == solar_local = <<>>

\* solar_local after the try block.
AfterFetch(solar_local, resp) ==
    IF ~FetchAttempted(solar_local) THEN solar_local
    ELSE IF resp = "200 rows" THEN FrameOf(github_url)
    ELSE <<>>

\* pd.concat of the legacy files that load non-empty, in the list's order.
RECURSIVE LegacyFrames(_, _)
LegacyFrames(fs, names) ==
    IF names = <<>> THEN <<>>
    ELSE Tagged(load_any(fs, <<Head(names)>>), Head(names), "Legacy System")
         \o LegacyFrames(fs, Tail(names))

\* The legacy files consulted first.
SolarLegacyFirst(fs, resp) ==
    IF LegacyFrames(fs, legacy_files) # <<>>
    THEN LegacyFrames(fs, legacy_files)
    ELSE Tagged(AfterFetch(load_any(fs, SolarCandidates), resp),
                "New_inverter.csv", "3-Inverter Enhanced System")

\* data['solar']
Solar(fs, resp) ==
    LET solar_local == AfterFetch(load_any(fs, SolarCandidates), resp)
    IN  IF solar_local # <<>>
        THEN Tagged(solar_local, "New_inverter.csv",
                    "3-Inverter Enhanced System")
        ELSE LegacyFrames(fs, legacy_files)

load_all_energy_data_silent ==
    /\ data = NotLoaded
    /\ requests_sent' =
           IF FetchAttempted(load_any(files, SolarCandidates))
           THEN requests_sent + 1
           ELSE requests_sent
    /\ data' = [loaded |-> TRUE,
                generator |-> load_any(files, GeneratorCandidates),
                fuel_history |-> load_any(files, HistoryCandidates),
                factory |-> load_any(files, FactoryCandidates),
                fuel_purchases |-> load_any(files, PurchaseCandidates),
                solar |-> Solar(files, response)]
    /\ UNCHANGED <<gen_df, gen_detailed_df, fuel_history_df,
                   fuel_purchases_df, start_date, end_date, pricing_mode,
                   fuel_purchases_clean, avg_fuel_price, daily_primary,
                   daily_backup, state_smooth, daily_combined,
                   daily_price_series, daily_fuel, stats,
                   fuel_purchases_filtered, selected_pricing_mode, pc,
                   memo_vars, files, response>>

\* The solar files in every condition, the other files present.
SolarFiles ==
    {[name \in FileNames |->
         IF name \in DOMAIN f THEN f[name] ELSE "rows"] :
        f \in [Range(SolarCandidates) \cup Range(legacy_files) -> FileStatus]}

\* The generator's candidates in every condition, the other files missing.
SensorFiles ==
    {[name \in FileNames |->
         IF name \in DOMAIN f THEN f[name] ELSE "missing"] :
        f \in [Range(GeneratorCandidates) -> FileStatus]}

InitLoad ==
    /\ files \in SolarFiles \cup SensorFiles
    /\ response \in Responses
    /\ requests_sent = 0
    /\ data = NotLoaded
    /\ gen_df = <<>>
    /\ gen_detailed_df = <<>>
    /\ fuel_history_df = <<>>
    /\ fuel_purchases_df = EmptyFrame
    /\ daily_primary = EmptySeries
    /\ daily_backup = EmptySeries
    /\ NoReportYet
    /\ selected_pricing_mode = DefaultPricingMode
    /\ pc = "loaded"
    /\ SessionStart

NextLoad == load_all_energy_data_silent

SpecLoad == InitLoad /\ [][NextLoad]_vars

-----------------------------------------------------------------------------
(* Properties.                                                             *)

Reported == pc = "reported"

PrimaryOf(d) == Get(daily_primary, d, 0)
BackupOf(d) == Get(daily_backup, d, 0)

\* == on doubles: NaN equals nothing, itself included.
FloatEq(x, y) == ~IsNaN(x) /\ ~IsNaN(y) /\ x = y

\* C1: for every reconciled date, the reconciled litres equal the primary
\* value whenever the primary value is greater than 0.1, whatever the
\* backup value is.
C1_PrimaryPriority ==
    Reported =>
        \A d \in DOMAIN daily_combined :
            PrimaryOf(d) > 10 => daily_combined[d] = PrimaryOf(d)

\* C2: for every reconciled date whose primary value does not exceed 0.1
\* (absent counts as 0), the reconciled litres equal the backup value if
\* that exceeds 0.1 and max(primary, backup) otherwise; primary
\* {d1: 0.05, d2: 5.0} with backup {d1: 3.0, d2: 0.02} reconciles to
\* {d1: 3.0, d2: 5.0}.
ScenarioAPrimary == [d \in SensorDates |-> IF d = 20250115 THEN 5 ELSE 500]
ScenarioABackup == [d \in SensorDates |-> IF d = 20250115 THEN 300 ELSE 2]
ScenarioAReconciled ==
    [d \in SensorDates |-> IF d = 20250115 THEN 300 ELSE 500]

C2_BackupWhenPrimaryLow ==
    Reported =>
        /\ DOMAIN daily_combined = DOMAIN daily_primary \cup DOMAIN daily_backup
        /\ \A d \in DOMAIN daily_combined :
               PrimaryOf(d) <= 10 =>
                   /\ BackupOf(d) > 10 => daily_combined[d] = BackupOf(d)
                   /\ BackupOf(d) <= 10 =>
                          /\ daily_combined[d] >= PrimaryOf(d)
                          /\ daily_combined[d] >= BackupOf(d)
                          /\ daily_combined[d] \in {PrimaryOf(d), BackupOf(d)}
        /\ (daily_primary = ScenarioAPrimary /\ daily_backup = ScenarioABackup)
               => daily_combined = ScenarioAReconciled

C2_Witness ==
    /\ Reported
    /\ daily_primary = ScenarioAPrimary
    /\ daily_backup = ScenarioABackup
    /\ daily_combined = ScenarioAReconciled

\* The readings, in time order, that an extractor differences: the target
\* entity's rows whose calendar date lies in the requested range.
ReadingsUsed(df, entity) ==
    States(SortByTime(EntityRows(
        filter_data_by_date_range(df, start_date, end_date), entity)))

HasRise(st) == \E i \in 1..(Len(st) - 1) : st[i + 1] > st[i]

\* C3: every per-day value produced by the primary extractor and by the
\* backup extractor is greater than or equal to 0; a rise of the level
\* reading (a refill) never makes a day's total negative.
C3_ConsumptionNonNegative ==
    Reported =>
        /\ \A d \in DOMAIN daily_primary : daily_primary[d] >= 0
        /\ \A d \in DOMAIN daily_backup : daily_backup[d] >= 0

C3_Witness ==
    /\ Reported
    /\ HasRise(ReadingsUsed(fuel_history_df, FuelLevelEntity))
    /\ \E d \in DOMAIN daily_backup : daily_backup[d] > 0
    /\ \E d \in DOMAIN daily_primary : daily_primary[d] > 0

RecordDates == {daily_fuel[i].date : i \in 1..Len(daily_fuel)}

\* C4: the emitted records hold exactly one record for each date of the
\* union of the primary and backup dates whose reconciled litres are
\* strictly greater than 0, and none for any other date.
C4_OnlyActiveDays ==
    Reported =>
        /\ Cardinality(RecordDates) = Len(daily_fuel)
        /\ RecordDates =
               {d \in DOMAIN daily_primary \cup DOMAIN daily_backup :
                   daily_combined[d] > 0}
        /\ \A i \in 1..Len(daily_fuel) :
               /\ daily_fuel[i].fuel_consumed_liters > 0
               /\ daily_fuel[i].fuel_consumed_liters =
                      daily_combined[daily_fuel[i].date]

C4_Witness ==
    /\ Reported
    /\ daily_fuel # <<>>
    /\ \E d \in DOMAIN daily_primary \cup DOMAIN daily_backup :
           daily_combined[d] = 0 /\ d \notin RecordDates

\* A price strictly inside (0, 50), in cents per litre.
StrictlyInBand(p) == p.d > 0 /\ p.n > 0 /\ p.n < 5000 * p.d

LedgerColumns == normalize_purchase_columns(fuel_purchases_df.cols)

\* The price per litre a ledger row carries: the price column when the
\* ledger has one, else cost / litres when it has both, else none.
RowPrice(r) ==
    IF "price_per_litre" \in LedgerColumns THEN r.price_per_litre
    ELSE IF "litres" \in LedgerColumns /\ "cost" \in LedgerColumns
    THEN RatDiv(r.cost, r.litres)
    ELSE NaN

\* The ledger's rows with a valid date and a price strictly inside the
\* band, in ledger order, each with the price it carries.
RowsInBand ==
    LET rows == IF "date" \in LedgerColumns THEN fuel_purchases_df.rows
                ELSE <<>>
        with == [i \in 1..Len(rows) |->
                    [rows[i] EXCEPT !.price_per_litre = RowPrice(rows[i])]]
    IN  SelectSeq(with, LAMBDA r:
            r.date # NaT /\ StrictlyInBand(r.price_per_litre))

\* C5: after cleaning every retained purchase has 0 < price < 50, and the
\* cleaning retains exactly the validly-dated records whose price lies
\* strictly inside the band, prices unchanged; prices
\* [15, 22, 1000, -5, 22.5] clean to [15, 22, 22.5].
C5_CleanedPricesInBand ==
    Reported =>
        /\ \A i \in 1..Len(fuel_purchases_clean) :
               StrictlyInBand(fuel_purchases_clean[i].price_per_litre)
        /\ fuel_purchases_clean = RowsInBand
        /\ fuel_purchases_df = ScenarioLedger =>
               PricesOf(fuel_purchases_clean) =
                   <<Whole(1500), Whole(2200), Whole(2250)>>

C5_Witness ==
    /\ Reported
    /\ fuel_purchases_df = ScenarioLedger
    /\ Len(fuel_purchases_clean) = 3

\* The retained purchases dated on or before date d (by calendar date).
OnOrBefore(d) ==
    SelectSeq(fuel_purchases_clean, LAMBDA r: DateOf(r.date) <= d)

\* The prices of the latest purchases among rows.
LatestPrices(rows) ==
    {rows[i].price_per_litre : i \in
        {i \in 1..Len(rows) : \A j \in 1..Len(rows) :
            rows[j].date <= rows[i].date}}

\* C6: under nearest_prior, for every date for which the cleaned ledger
\* holds a purchase dated on or before that date, the attributed price is
\* the price of the most recent such purchase; a purchase dated on the
\* target date itself is eligible.
C6_NearestPrior ==
    (Reported /\ pricing_mode = "nearest_prior") =>
        \A d \in DOMAIN daily_price_series :
            OnOrBefore(d) # <<>> =>
                daily_price_series[d] \in LatestPrices(OnOrBefore(d))

\* The part of C6 the code keeps: the most recent purchase whose timestamp
\* is not later than 00:00 of the target date.
NearestPriorAtMidnight ==
    (Reported /\ pricing_mode = "nearest_prior") =>
        \A d \in DOMAIN daily_price_series :
            LET prior == SelectSeq(fuel_purchases_clean,
                                   LAMBDA r: r.date <= d * 100)
            IN  prior # <<>> =>
                    daily_price_series[d] \in LatestPrices(prior)

LedgerMean == RatMean(PricesOf(fuel_purchases_clean))

PrecedesAllPurchases(d) ==
    \A i \in 1..Len(fuel_purchases_clean) :
        d < DateOf(fuel_purchases_clean[i].date)

\* C7: under nearest_prior with a non-empty cleaned ledger, every date that
\* precedes all purchases is given the mean price over all retained
\* records, and so is every record emitted for such a date.
C7_BeforeAllPurchasesMean ==
    (Reported /\ pricing_mode = "nearest_prior"
              /\ fuel_purchases_clean # <<>>) =>
        /\ \A d \in DOMAIN daily_combined :
               PrecedesAllPurchases(d) =>
                   /\ d \in DOMAIN daily_price_series
                   /\ daily_price_series[d] = LedgerMean
        /\ \A i \in 1..Len(daily_fuel) :
               PrecedesAllPurchases(daily_fuel[i].date) =>
                   daily_fuel[i].fuel_price_per_liter = LedgerMean

C7_Witness ==
    /\ Reported
    /\ pricing_mode = "nearest_prior"
    /\ Len(fuel_purchases_clean) = 2
    /\ fuel_purchases_clean[1].price_per_litre
           # fuel_purchases_clean[2].price_per_litre
    /\ Len(daily_fuel) = 2
    /\ \A i \in 1..Len(daily_fuel) :
           /\ PrecedesAllPurchases(daily_fuel[i].date)
           /\ daily_fuel[i].fuel_price_per_liter = LedgerMean

\* The retained purchases of date d's calendar month (year and month).
SameMonth(d) ==
    SelectSeq(fuel_purchases_clean,
              LAMBDA r: /\ r.date \div 1000000 = d \div 10000
                        /\ (r.date \div 10000) % 100 = (d \div 100) % 100)

\* C8: under monthly_average the price of a date is the mean price of the
\* retained purchases of that date's calendar month (same year and month),
\* and the mean over all retained purchases when the month has none.
C8_MonthlyAverage ==
    (Reported /\ pricing_mode = "monthly_average"
              /\ fuel_purchases_clean # <<>>) =>
        \A d \in DOMAIN daily_combined :
            /\ d \in DOMAIN daily_price_series
            /\ daily_price_series[d] =
                   IF SameMonth(d) # <<>>
                   THEN RatMean(PricesOf(SameMonth(d)))
                   ELSE LedgerMean

\* A January 2025 date priced from a ledger that also holds a purchase of
\* January 2026.
C8_Witness ==
    /\ Reported
    /\ pricing_mode = "monthly_average"
    /\ \E d \in DOMAIN daily_price_series :
           /\ Len(SameMonth(d)) = 1
           /\ Len(fuel_purchases_clean) = 2
           /\ \E i \in 1..2 :
                  MonthOf(DateOf(fuel_purchases_clean[i].date)) % 100
                      = MonthOf(d) % 100
                  /\ MonthOf(DateOf(fuel_purchases_clean[i].date))
                      # MonthOf(d)
           /\ daily_price_series[d] # LedgerMean

\* C9: under either policy, when the cleaned ledger holds no records every
\* emitted record's price is the default 22.50, and no emitted record
\* carries an undefined (NaN) price or cost.
C9_DefaultPriceWhenNoLedger ==
    Reported =>
        \A i \in 1..Len(daily_fuel) :
            /\ ~IsNaN(daily_fuel[i].fuel_price_per_liter)
            /\ ~IsNaN(daily_fuel[i].daily_cost_rands)
            /\ fuel_purchases_clean = <<>> =>
                   daily_fuel[i].fuel_price_per_liter = Whole(2250)

\* The part of C9 the code keeps: the default price when the ledger is
\* empty as loaded or lacks a usable date or price column.
DefaultPriceWhenLedgerUnusable ==
    (Reported /\ (IsEmptyFrame(fuel_purchases_df)
                  \/ "date" \notin LedgerColumns
                  \/ ("price_per_litre" \notin LedgerColumns
                      /\ ~({"litres", "cost"} \subseteq LedgerColumns)))) =>
        \A i \in 1..Len(daily_fuel) :
            daily_fuel[i].fuel_price_per_liter = Whole(2250)

\* C10: for every emitted record, the daily cost equals the litres times
\* the price, the litres being the date's reconciled value and the price
\* the price attributed to that date.
C10_CostIsLitresTimesPrice ==
    Reported =>
        \A i \in 1..Len(daily_fuel) :
            LET r == daily_fuel[i]
            IN  /\ FloatEq(r.daily_cost_rands,
                           RatScale(r.fuel_consumed_liters,
                                    r.fuel_price_per_liter))
                /\ r.fuel_consumed_liters = daily_combined[r.date]
                /\ r.date \in DOMAIN daily_price_series =>
                       r.fuel_price_per_liter = daily_price_series[r.date]

\* The part of C10 the code keeps: the equation on every record whose
\* price is defined, and a NaN cost exactly where the price is NaN.
CostIsProductWherePriceDefined ==
    Reported =>
        \A i \in 1..Len(daily_fuel) :
            LET r == daily_fuel[i]
            IN  /\ IsNaN(r.fuel_price_per_liter) <=> IsNaN(r.daily_cost_rands)
                /\ ~IsNaN(r.fuel_price_per_liter) =>
                       /\ r.daily_cost_rands.d = r.fuel_price_per_liter.d
                              \div GCD(r.fuel_consumed_liters,
                                       r.fuel_price_per_liter.d)
                       /\ r.daily_cost_rands.n * r.fuel_price_per_liter.d
                              = r.fuel_consumed_liters
                                * r.fuel_price_per_liter.n
                                * r.daily_cost_rands.d

\* The target entity's in-range rows of the tank-level history, in time
\* order, and their smoothed readings.
LevelRowsUsed ==
    SortByTime(EntityRows(
        filter_data_by_date_range(fuel_history_df, start_date, end_date),
        FuelLevelEntity))

\* The differences between consecutive smoothed readings: entry i is the
\* difference between reading i and the one before it (none for the first).
LevelDiffs(rows) ==
    LET smooth == StateSmooth(States(rows))
    IN  [i \in 1..Len(rows) |-> IF i = 1 THEN 0 ELSE smooth[i] - smooth[i - 1]]

\* What the differences of date d count for when only those strictly
\* between -30 and -1 count, each for its magnitude.
QualifyingDrops(rows, diffs, d) ==
    LET on == {i \in 2..Len(rows) : DateOf(rows[i].last_changed) = d}
    IN  SumOver(on, [i \in on |->
                        IF -3000 < diffs[i] /\ diffs[i] < -100
                        THEN -diffs[i] ELSE 0])

\* C11: in the backup extractor a difference d between consecutive
\* smoothed readings counts as consumption of -d only when -30 < d < -1
\* strictly; differences of exactly -1, of exactly -30, below -30 or
\* non-negative count for 0.  A day's value is the sum of what its
\* differences count for (up to the daily cap); the same-day readings
\* [100, 98, 97, 65, 64] give a day's total of 2.
C11_StrictDropBand ==
    Reported =>
        /\ \A rows \in {LevelRowsUsed} : \A diffs \in {LevelDiffs(rows)} :
               \A d \in DOMAIN daily_backup :
                   daily_backup[d] = Min(QualifyingDrops(rows, diffs, d), 5000)
        /\ (fuel_history_df = ScenarioBHistory /\ 20250115 >= start_date
                /\ 20250115 <= end_date)
               => daily_backup = [d \in {20250115} |-> 200]

SeenDiffs ==
    {LevelDiffs(LevelRowsUsed)[i] : i \in 2..Len(LevelRowsUsed)}

C11_Witness ==
    /\ Reported
    /\ fuel_history_df = ScenarioBHistory
    /\ SeenDiffs = {-200, -100, -3200}
    /\ daily_backup = [d \in {20250115} |-> 200]

\* The band's other edge and the rises are met as well: a difference of
\* exactly -30 and a non-negative one in the same call, both counting 0.
BandEdgeThirtyReached ==
    /\ Reported
    /\ -3000 \in SeenDiffs
    /\ \E x \in SeenDiffs : x >= 0
    /\ \A d \in DOMAIN daily_backup : daily_backup[d] = 0

\* A table without its rows whose reading is no number.
NumericRowsOnly(df) == SelectSeq(df, LAMBDA r: r.state.num)

\* C12: a sensor row whose reading is non-numeric is dropped before
\* aggregation: for both extractors the per-day series equals the series
\* obtained from the same tables with those rows removed.
C12_NonNumericRowDropped ==
    Reported =>
        /\ daily_primary =
               compute_primary_consumption(NumericRowsOnly(gen_df),
                                           NumericRowsOnly(gen_detailed_df),
                                           start_date, end_date)
        /\ daily_backup =
               compute_backup_consumption(NumericRowsOnly(fuel_history_df),
                                          start_date, end_date)

\* C13: for any input tables, including a sensor table that lacks one of
\* the columns last_changed, entity_id, state and a ledger that lacks its
\* date, litres, cost or price columns, a report call returns its records
\* and statistics and never raises an exception to its caller.
C13_NeverRaises == pc # "raised"

\* The part of C13 the code keeps: a call raises only when a sensor table
\* that has rows lacks a column; whatever the ledger lacks, the call
\* returns.
RaisesOnlyForSensorColumns ==
    pc = "raised" =>
        \E df \in {gen_df, gen_detailed_df, fuel_history_df} :
            df # <<>> /\ ~(ColumnNames \subseteq Columns(df))

\* The table is empty, or holds no row of the entity in the range of the
\* last call.
NoTargetRows(df, entity) ==
    \/ df = <<>>
    \/ /\ "entity_id" \in Columns(df)
       /\ EntityRows(filter_data_by_date_range(df, start_date, end_date),
                     entity) = <<>>

NothingToExtract ==
    /\ NoTargetRows(gen_detailed_df, FuelConsumedEntity)
    /\ NoTargetRows(gen_df, FuelConsumedEntity)
    /\ NoTargetRows(fuel_history_df, FuelLevelEntity)

\* C14: each extractor returns an empty series, without raising, when its
\* input table is empty or holds no row of its target entity in the
\* requested range (for the primary extractor: neither of its two tables
\* does); when both series are empty the call returns no record and the
\* empty statistics mapping.
C14_EmptyInEmptyOut ==
    pc \in {"reported", "raised"} =>
        /\ NothingToExtract => Reported
        /\ Reported =>
              /\ NoTargetRows(fuel_history_df, FuelLevelEntity)
                     => daily_backup = EmptySeries
              /\ (NoTargetRows(gen_detailed_df, FuelConsumedEntity)
                     /\ NoTargetRows(gen_df, FuelConsumedEntity))
                     => daily_primary = EmptySeries
              /\ (daily_primary = EmptySeries /\ daily_backup = EmptySeries)
                     => daily_fuel = <<>> /\ stats = [empty |-> TRUE]

\* Tables that have rows, none of them a target row in the range.
C14_Witness ==
    /\ Reported
    /\ fuel_history_df # <<>>
    /\ gen_detailed_df # <<>> \/ gen_df # <<>>
    /\ NothingToExtract
    /\ daily_fuel = <<>>
    /\ stats = [empty |-> TRUE]

AllTablesEmptyReached ==
    /\ Reported
    /\ gen_detailed_df = <<>> /\ gen_df = <<>> /\ fuel_history_df = <<>>
    /\ daily_fuel = <<>>
    /\ stats = [empty |-> TRUE]

\* The rows whose timestamp parses and whose calendar date d satisfies
\* start_date <= d <= end_date.
OnDatesInRange(df) ==
    IF "last_changed" \notin Columns(df) THEN <<>>
    ELSE SelectSeq(df, LAMBDA r:
            /\ r.last_changed # NaT
            /\ start_date <= r.last_changed \div 100
            /\ r.last_changed \div 100 <= end_date)

\* C15: both extractors use exactly the readings whose calendar date d
\* satisfies start_date <= d <= end_date, whatever their time of day,
\* and none with an unparsable timestamp: their series are those of the
\* tables cut down to these rows beforehand.  Every record's date lies in
\* [start_date, end_date], and an inverted range yields an empty result.
C15_InclusiveDateRange ==
    Reported =>
        /\ daily_primary =
               compute_primary_consumption(OnDatesInRange(gen_df),
                                           OnDatesInRange(gen_detailed_df),
                                           19000101, 20991231)
        /\ daily_backup =
               compute_backup_consumption(OnDatesInRange(fuel_history_df),
                                          19000101, 20991231)
        /\ \A i \in 1..Len(daily_fuel) :
               start_date <= daily_fuel[i].date
                   /\ daily_fuel[i].date <= end_date
        /\ end_date < start_date =>
               /\ daily_primary = EmptySeries
               /\ daily_backup = EmptySeries
               /\ daily_fuel = <<>>
               /\ stats = [empty |-> TRUE]

\* A one-day range whose consumption comes from a reading taken at 18:00
\* of that day, the table holding a later reading as well.
C15_Witness ==
    /\ Reported
    /\ start_date = 20250115 /\ end_date = 20250115
    /\ ColumnNames \subseteq Columns(fuel_history_df)
    /\ \E i \in 1..Len(fuel_history_df) :
           fuel_history_df[i].last_changed = 2025011606
    /\ \E i \in 1..Len(fuel_history_df) :
           fuel_history_df[i].last_changed = 2025011518
    /\ 20250115 \in DOMAIN daily_backup
    /\ daily_backup[20250115] > 0
    /\ \E i \in 1..Len(daily_fuel) : daily_fuel[i].date = 20250115

InvertedRangeReached ==
    /\ Reported
    /\ end_date < start_date
    /\ fuel_history_df = HistoryFixed
    /\ gen_detailed_df = DetailedFixed
    /\ daily_fuel = <<>>

UnparsableTimestampReached ==
    /\ Reported
    /\ ColumnNames \subseteq Columns(fuel_history_df)
    /\ \E i \in 1..Len(fuel_history_df) :
           /\ fuel_history_df[i].last_changed = NaT
           /\ fuel_history_df[i].entity_id = FuelLevelEntity
    /\ \E d \in DOMAIN daily_backup : daily_backup[d] > 0

\* C16: the pricing policy chosen in the 'Fuel Pricing Mode' control is
\* the policy used to price the report's daily records: the date-to-price
\* mapping is the one the chosen policy builds from the cleaned ledger,
\* and the statistics name that policy.
C16_SelectedPolicyPrices ==
    Reported =>
        /\ pricing_mode = selected_pricing_mode
        /\ daily_price_series =
               build_daily_price_series(fuel_purchases_clean,
                                        AllDates(daily_primary, daily_backup),
                                        selected_pricing_mode)

\* The part of C16 the code keeps: whatever is chosen, the report is
\* priced by the nearest-prior policy.
AlwaysNearestPrior ==
    Reported =>
        /\ pricing_mode = "nearest_prior"
        /\ daily_price_series =
               build_daily_price_series(fuel_purchases_clean,
                                        AllDates(daily_primary, daily_backup),
                                        "nearest_prior")

LitresOf(records) ==
    [i \in 1..Len(records) |-> records[i].fuel_consumed_liters]

CostsOf(records) ==
    [i \in 1..Len(records) |-> records[i].daily_cost_rands]

\* The last 7 entries of a list of at least 7.
LastSeven(values) ==
    [k \in 1..7 |-> values[Len(values) - 7 + k]]

\* C17: the litres trend and the cost trend are empty when fewer than 7
\* records are emitted; otherwise each holds exactly 7 values, those of
\* the 7 records with the latest dates, in ascending date order.  (With
\* no record at all the statistics mapping is empty and holds no trend.)
C17_TrendOfLastSeven ==
    (Reported /\ daily_fuel # <<>>) =>
        /\ \A i \in 1..(Len(daily_fuel) - 1) :
               daily_fuel[i].date < daily_fuel[i + 1].date
        /\ Len(daily_fuel) < 7 =>
               /\ stats.fuel_consumption_trend = <<>>
               /\ stats.cost_trend = <<>>
        /\ Len(daily_fuel) >= 7 =>
               /\ stats.fuel_consumption_trend = LastSeven(LitresOf(daily_fuel))
               /\ stats.cost_trend = LastSeven(CostsOf(daily_fuel))

\* Eight records: the trend leaves out the earliest one.
C17_Witness ==
    /\ Reported
    /\ Len(daily_fuel) = 8
    /\ Len(stats.fuel_consumption_trend) = 7
    /\ stats.fuel_consumption_trend[1] = daily_fuel[2].fuel_consumed_liters
    /\ stats.fuel_consumption_trend[1] # daily_fuel[1].fuel_consumed_liters
    /\ stats.cost_trend[7] = daily_fuel[8].daily_cost_rands

SixRecordsReached ==
    /\ Reported
    /\ Len(daily_fuel) = 6
    /\ stats.fuel_consumption_trend = <<>>
    /\ stats.cost_trend = <<>>

SevenRecordsReached ==
    /\ Reported
    /\ Len(daily_fuel) = 7
    /\ stats.fuel_consumption_trend = LitresOf(daily_fuel)

\* The target entity's in-range rows of a table, in time order.
ConsumedRowsIn(df) ==
    SortByTime(EntityRows(
        filter_data_by_date_range(df, start_date, end_date),
        FuelConsumedEntity))

\* The rows the primary extractor differences: those of the detailed
\* table when it has any, else those of the generator table.
PrimaryRowsUsed ==
    IF ConsumedRowsIn(gen_detailed_df) # <<>>
    THEN ConsumedRowsIn(gen_detailed_df)
    ELSE ConsumedRowsIn(gen_df)

\* The readings of the rows as the extractor reads them (0 where the cell
\* holds no number).
ReadingsOf(rows) ==
    [i \in 1..Len(rows) |-> IF rows[i].state.num THEN rows[i].state.v ELSE 0]

DatesOf(rows) == {rows[i].last_changed \div 100 : i \in 1..Len(rows)}

\* The sum, over the readings taken on date d that have a previous
\* reading, of max(0, previous reading - this reading).
DropsOn(rows, st, d) ==
    LET on == {i \in 2..Len(rows) : rows[i].last_changed \div 100 = d}
    IN  SumOver(on, [i \in on |->
                        IF st[i - 1] > st[i] THEN st[i - 1] - st[i] ELSE 0])

\* C19: for the primary extractor the value of date D is the sum, over the
\* target entity's in-range readings taken on D in chronological order,
\* of max(0, previous reading - this reading); D is in the output if and
\* only if that sum is at least 1 (exactly 1.0 is kept, less is dropped).
C19_PrimaryDailySum ==
    Reported =>
        \A rows \in {PrimaryRowsUsed} : \A st \in {ReadingsOf(rows)} :
            /\ DOMAIN daily_primary =
                   {d \in DatesOf(rows) : DropsOn(rows, st, d) >= 100}
            /\ \A d \in DOMAIN daily_primary :
                   daily_primary[d] = DropsOn(rows, st, d)

\* A day summing to exactly 1.0 is kept and a day summing to 0.5 is
\* dropped, in the same call.
C19_Witness ==
    /\ Reported
    /\ \E d \in DOMAIN daily_primary : daily_primary[d] = 100
    /\ \E d \in DatesOf(PrimaryRowsUsed) :
           /\ DropsOn(PrimaryRowsUsed, ReadingsOf(PrimaryRowsUsed), d) = 50
           /\ d \notin DOMAIN daily_primary

\* C20: every per-day value of the backup extractor is at most 50; a day
\* whose qualifying drops sum to more than 50 is reported as exactly 50,
\* and a day summing to 50 or less is reported unchanged.
C20_BackupDailyCap ==
    Reported =>
        \A rows \in {LevelRowsUsed} : \A diffs \in {LevelDiffs(rows)} :
            \A d \in DOMAIN daily_backup :
                LET drops == QualifyingDrops(rows, diffs, d)
                IN  /\ daily_backup[d] <= 5000
                    /\ drops > 5000 => daily_backup[d] = 5000
                    /\ drops <= 5000 => daily_backup[d] = drops

\* Three drops of 28 L in one day are reported as 50.
C20_Witness ==
    /\ Reported
    /\ fuel_history_df = OverCapHistory
    /\ QualifyingDrops(LevelRowsUsed, LevelDiffs(LevelRowsUsed), 20250115)
           = 8400
    /\ daily_backup = [d \in {20250115} |-> 5000]

\* Two drops of 25 L in one day sum to exactly 50 and stay 50.
ExactlyFiftyReached ==
    /\ Reported
    /\ fuel_history_df = AtCapHistory
    /\ QualifyingDrops(LevelRowsUsed, LevelDiffs(LevelRowsUsed), 20250115)
           = 5000
    /\ daily_backup = [d \in {20250115} |-> 5000]

\* Whether the centered 20-sample window of position i lies completely
\* inside a series of n readings: 10 readings before i and 9 after it.
WindowInside(i, n) == i - 10 >= 1 /\ i + 9 <= n

\* The raw differences of the rows, entry 1 being 0.
RawDiffs(rows) ==
    [i \in 1..Len(rows) |->
        IF i = 1 THEN 0 ELSE ReadingsOf(rows)[i] - ReadingsOf(rows)[i - 1]]

\* C21: in the backup extractor the smoothed value at any position whose
\* centered 20-sample window does not lie completely inside the series
\* equals the unsmoothed reading at that position; a series of fewer than
\* 20 readings is differenced exactly as read.
C21_EdgesUnsmoothed ==
    Reported =>
        \A rows \in {LevelRowsUsed} : \A st \in {ReadingsOf(rows)} :
            /\ Len(state_smooth) = Len(st)
            /\ \A i \in 1..Len(st) :
                   ~WindowInside(i, Len(st)) => state_smooth[i] = st[i]
            /\ Len(st) < 20 =>
                   /\ state_smooth = st
                   /\ \A d \in DOMAIN daily_backup :
                          daily_backup[d] =
                              Min(QualifyingDrops(rows, RawDiffs(rows), d),
                                  5000)

\* A series of at least 20 readings in which the median moves a reading
\* whose window is complete while a reading off the 100 L level, at a
\* position with an incomplete window, stays as read.
C21_Witness ==
    /\ Reported
    /\ Len(state_smooth) >= 20
    /\ \E i \in 1..Len(state_smooth) :
           /\ WindowInside(i, Len(state_smooth))
           /\ state_smooth[i] # ReadingsOf(LevelRowsUsed)[i]
    /\ \E j \in 1..Len(state_smooth) :
           /\ ~WindowInside(j, Len(state_smooth))
           /\ ReadingsOf(LevelRowsUsed)[j] # 10000
           /\ state_smooth[j] = ReadingsOf(LevelRowsUsed)[j]

\* Nineteen readings with a dip: no smoothing, the dip is counted.
ShortSeriesReached ==
    /\ Reported
    /\ Len(state_smooth) = 19
    /\ \E d \in DOMAIN daily_backup : daily_backup[d] = 200

\* What the primary algorithm gives on the detailed table alone, and on
\* the generator table alone.
FromDetailedAlone ==
    compute_primary_consumption(<<>>, gen_detailed_df, start_date, end_date)

FromGeneratorAlone ==
    compute_primary_consumption(gen_df, <<>>, start_date, end_date)

\* C22: the primary extractor computes its result from the detailed table
\* if that table has at least one in-range row of the target entity, and
\* otherwise returns the result of the same algorithm on the generator
\* table; it falls back in exactly those cases, not because every day of
\* the detailed table was discarded as noise.
C22_FallbackOnlyWithoutRows ==
    Reported =>
        /\ ConsumedRowsIn(gen_detailed_df) # <<>>
               => daily_primary = FromDetailedAlone
        /\ ConsumedRowsIn(gen_detailed_df) = <<>>
               => daily_primary = FromGeneratorAlone

\* The detailed table has in-range rows whose days are all noise, the
\* generator table would have given a day: the result is empty.
C22_Witness ==
    /\ Reported
    /\ ConsumedRowsIn(gen_detailed_df) # <<>>
    /\ FromGeneratorAlone # EmptySeries
    /\ daily_primary = EmptySeries

\* The detailed table has rows, none of the entity in range: fallback.
FallbackReached ==
    /\ Reported
    /\ gen_detailed_df # <<>>
    /\ ConsumedRowsIn(gen_detailed_df) = <<>>
    /\ daily_primary # EmptySeries
    /\ daily_primary = FromGeneratorAlone

\* C23: every emitted record's fuel_consumed_liters equals its
\* primary_source field or its backup_source field, and those fields are
\* exactly the values the two extractors produced for the record's date
\* (0 where an extractor has no row for it); the reconciled value is
\* never a blend of the two.
C23_ReconciledIsOneSource ==
    Reported =>
        \A i \in 1..Len(daily_fuel) :
            LET r == daily_fuel[i]
            IN  /\ r.primary_source =
                       (IF r.date \in DOMAIN daily_primary
                        THEN daily_primary[r.date] ELSE 0)
                /\ r.backup_source =
                       (IF r.date \in DOMAIN daily_backup
                        THEN daily_backup[r.date] ELSE 0)
                /\ r.fuel_consumed_liters
                       \in {r.primary_source, r.backup_source}

\* A record whose two sources are both meaningful and differ.
C23_Witness ==
    /\ Reported
    /\ \E i \in 1..Len(daily_fuel) :
           LET r == daily_fuel[i]
           IN  /\ r.primary_source > 10
               /\ r.backup_source > 10
               /\ r.primary_source # r.backup_source
               /\ r.fuel_consumed_liters
                      \in {r.primary_source, r.backup_source}

-----------------------------------------------------------------------------
\* The price a purchase row should enter the band filter with: its own price,
\* or cost / litres when its price cell is empty and the ledger has cost and
\* litres.
PriceDue(cols, r) ==
    IF IsNaN(r.price_per_litre) /\ "litres" \in cols /\ "cost" \in cols
    THEN ReplaceInf(RatDiv(r.cost, r.litres))
    ELSE ReplaceInf(r.price_per_litre)

CleanedAsDue(df) ==
    LET cols == normalize_purchase_columns(df.cols)
        dated == SelectSeq(df.rows, LAMBDA r: r.date # NaT)
        due == [i \in 1..Len(dated) |->
                   [dated[i] EXCEPT !.price_per_litre = PriceDue(cols, dated[i])]]
    IN  SelectSeq(due, LAMBDA r: InPriceBand(r.price_per_litre))

HasPriceInformation(df) ==
    LET cols == normalize_purchase_columns(df.cols)
    IN  /\ ~IsEmptyFrame(df)
        /\ "date" \in cols
        /\ "price_per_litre" \in cols \/ {"litres", "cost"} \subseteq cols

\* C24: a purchase record without a price but with cost and litres enters the
\* band filter with price = cost / litres, also when other records of the
\* ledger carry an explicit price; an infinite or undefined derived price
\* discards the record.
C24_DerivedPriceWhenAbsent ==
    (Reported /\ HasPriceInformation(fuel_purchases_df)) =>
        fuel_purchases_clean = CleanedAsDue(fuel_purchases_df)

\* The part of C24 the code keeps: in a ledger without a price column every
\* record gets cost / litres, and a division by zero discards the record.
DerivedWhenNoPriceColumn ==
    (/\ Reported
     /\ HasPriceInformation(fuel_purchases_df)
     /\ "price_per_litre" \notin normalize_purchase_columns(fuel_purchases_df.cols))
        => fuel_purchases_clean = CleanedAsDue(fuel_purchases_df)

DivisionByZeroDiscarded ==
    /\ Reported
    /\ \E i \in 1..Len(fuel_purchases_df.rows) :
           /\ fuel_purchases_df.rows[i].litres = Whole(0)
           /\ fuel_purchases_df.rows[i].cost = Whole(88000)
    /\ Len(fuel_purchases_clean) < Len(fuel_purchases_df.rows)
    /\ fuel_purchases_clean # <<>>

-----------------------------------------------------------------------------
\* The aggregates of the statistics mapping, taken over the emitted records.
AggregatesOver(records) ==
    /\ stats.period_days = Len(records)
    /\ stats.total_fuel_liters = IntSum(LitresOf(records))
    /\ stats.average_daily_fuel =
           Rat(stats.total_fuel_liters, stats.period_days)

\* C25: the statistics are taken over the emitted records only: the count is
\* the number of records, total litres and total cost are the sums over the
\* records, mean daily litres is total litres over the count, and without a
\* record the mapping is empty.
C25_StatisticsOverRecords ==
    Reported =>
        IF daily_fuel = <<>> THEN stats = EmptyStats
        ELSE /\ stats # EmptyStats
             /\ AggregatesOver(daily_fuel)
             /\ stats.total_cost_rands = RatSum(CostsOf(daily_fuel))

\* The part of C25 the code keeps: everything but the total cost of records
\* whose cost is NaN.
StatisticsWhereCostDefined ==
    Reported =>
        IF daily_fuel = <<>> THEN stats = EmptyStats
        ELSE /\ stats # EmptyStats
             /\ AggregatesOver(daily_fuel)
             /\ (\A i \in 1..Len(daily_fuel) :
                    ~IsNaN(daily_fuel[i].daily_cost_rands))
                    => stats.total_cost_rands = RatSum(CostsOf(daily_fuel))

TwoRecordsTotalled ==
    /\ Reported
    /\ Len(daily_fuel) = 2
    /\ stats.total_fuel_liters = 400
    /\ stats.average_daily_fuel = Whole(200)
    /\ stats.total_cost_rands = Whole(400 * 2200)

ZeroTotalOfUndefinedCosts ==
    /\ Reported
    /\ daily_fuel # <<>>
    /\ \A i \in 1..Len(daily_fuel) : IsNaN(daily_fuel[i].daily_cost_rands)
    /\ stats.total_cost_rands = Whole(0)

-----------------------------------------------------------------------------
\* The price series of a freshly cleaned copy of the ledger.
FreshlyAttributed(ledger, dates, mode) ==
    build_daily_price_series(
        process_fuel_purchases_and_pricing(ledger).clean, dates, mode)

FrameStep ==
    /\ gen_df' = gen_df
    /\ gen_detailed_df' = gen_detailed_df
    /\ fuel_history_df' = fuel_history_df
    /\ fuel_purchases_df' = fuel_purchases_df
    /\ pc' = "attributed" =>
           /\ fuel_purchases_clean' = fuel_purchases_clean
           /\ daily_price_series' =
                  FreshlyAttributed(fuel_purchases_df, DOMAIN daily_combined,
                                    pricing_mode')

\* C26: a report call leaves the generator, detailed, fuel-history and
\* purchase tables as they were, and an attribution leaves the cleaned ledger
\* as it was, so that attributing one cleaned ledger under one policy and
\* then under the other gives what a fresh copy gives.
C26_InputsUnchanged == [][FrameStep]_vars

\* An unsorted cleaned ledger priced under nearest_prior and then under
\* monthly_average, after a report whose range kept only part of the tables.
C26_Witness ==
    /\ pc = "attributed"
    /\ pricing_mode = "monthly_average"
    /\ Len(fuel_purchases_clean) = 2
    /\ fuel_purchases_clean[1].date > fuel_purchases_clean[2].date
    /\ daily_price_series # EmptyPrices
    /\ start_date = end_date
    /\ Len(gen_detailed_df) > 1

-----------------------------------------------------------------------------
\* The computations of the key of request j that precede it.
ComputedBefore(j) ==
    {i \in 1..(j - 1) :
        events[i].type = "computed" /\ events[i].key = events[j].key}

\* Computation i is less than 600 seconds older than request j and no clear
\* lies between them.
Servable(i, j) ==
    /\ events[j].at - events[i].at < 600
    /\ \A k \in (i + 1)..(j - 1) : events[k].type # "clear"

\* C27: a request is answered from the memo only if the same tables, range
\* and policy were computed less than 600 seconds earlier and no cache clear
\* (Refresh Data, a successful Data Manager download) happened since; every
\* other request is recomputed.
C27_MemoOnlyWhenFresh ==
    \A j \in 1..Len(events) :
        events[j].type = "memo" => \E i \in ComputedBefore(j) : Servable(i, j)

\* A request answered from the memo 300 seconds after its computation, which
\* followed a clear.
C27_Witness ==
    /\ Len(events) = 3
    /\ events[1].type = "clear"
    /\ events[2].type = "computed"
    /\ events[3].type = "memo"
    /\ events[3].at - events[2].at = 300
    /\ events[3].key = events[2].key
    /\ pc = "reported"
    /\ daily_fuel # <<>>

RecomputedAtTtl ==
    /\ Len(events) = 2
    /\ events[1].type = "computed"
    /\ events[2].type = "computed"
    /\ events[2].key = events[1].key
    /\ events[2].at - events[1].at = 600

RecomputedAfterClear ==
    /\ Len(events) = 3
    /\ events[1].type = "computed"
    /\ events[2].type = "clear"
    /\ events[3].type = "computed"
    /\ events[3].key = events[1].key
    /\ events[3].at = events[1].at

ServedAfterFailedDownload ==
    /\ Len(events) = 3
    /\ events[1].type = "computed"
    /\ events[2].type = "failed"
    /\ events[3].type = "memo"

-----------------------------------------------------------------------------
\* The first of the names whose file reads to rows, as a set of at most one.
FirstWithRows(names) ==
    {names[i] : i \in {j \in 1..Len(names) :
                          /\ files[names[j]] = "rows"
                          /\ \A k \in 1..(j - 1) : files[names[k]] # "rows"}}

SourceFilesOf(df) == [i \in 1..Len(df) |-> df[i].from]

\* The legacy files that read to rows, in the list's order.
LegacyWithRows == SelectSeq(legacy_files, LAMBDA f: files[f] = "rows")

IsTable(df) ==
    /\ DOMAIN df = 1..Len(df)
    /\ \A i \in 1..Len(df) : "from" \in DOMAIN df[i]

\* C28: the solar table is the local New_inverter file if it loads non-empty;
\* otherwise one remote fetch is made and used only if it returns status 200
\* and parses to rows; otherwise the legacy files are used.  No fetch is made
\* when the local file loads, a failed fetch counts as no data, and every
\* source of the returned mapping is a table.
C28_SolarSourceOrder ==
    data.loaded =>
        /\ IF FirstWithRows(SolarCandidates) # {}
           THEN /\ requests_sent = 0
                /\ Range(SourceFilesOf(data.solar)) =
                       FirstWithRows(SolarCandidates)
           ELSE /\ requests_sent = 1
                /\ IF response = "200 rows"
                   THEN SourceFilesOf(data.solar) = <<github_url>>
                   ELSE SourceFilesOf(data.solar) = LegacyWithRows
        /\ \A source \in {"generator", "fuel_history", "factory",
                           "fuel_purchases", "solar"} : IsTable(data[source])

\* The local files missing or empty, the fetch failing, two legacy files used.
C28_Witness ==
    /\ data.loaded
    /\ files["New_inverter.csv"] = "missing"
    /\ files["New_inverter.xlsx"] = "empty"
    /\ response = "timeout"
    /\ requests_sent = 1
    /\ Len(data.solar) = 2
    /\ data.solar[1].system_type = "Legacy System"

RemoteUsed ==
    /\ data.loaded
    /\ requests_sent = 1
    /\ Len(data.solar) = 1
    /\ data.solar[1].from = github_url
    /\ LegacyWithRows # <<>>

LocalUsedWithoutFetch ==
    /\ data.loaded
    /\ requests_sent = 0
    /\ response = "200 rows"
    /\ Len(data.solar) = 1
    /\ data.solar[1].from = "New_inverter.xlsx"

NoSolarAtAll ==
    /\ data.loaded
    /\ data.solar = <<>>
    /\ response = "200 unparsable"
    /\ files["Solar_goodwe&Fronius_may.csv"] = "unreadable"

-----------------------------------------------------------------------------
\* C29: in a full pipeline run the primary_source of every emitted record is
\* 0 or at least 1.0, so that every emitted record of at most 0.1 litres has
\* primary_source = 0 and its litres are its backup_source.
C29_PrimarySourceZeroOrLitre ==
    Reported =>
        \A i \in 1..Len(daily_fuel) :
            LET r == daily_fuel[i]
            IN  /\ r.primary_source = 0 \/ r.primary_source >= 100
                /\ r.fuel_consumed_liters <= 10 =>
                       /\ r.primary_source = 0
                       /\ r.fuel_consumed_liters = r.backup_source

\* A record whose day's primary readings drop by 0.5 L in all: the primary
\* value is withheld and the record carries primary_source = 0.
C29_Witness ==
    /\ Reported
    /\ \E i \in 1..Len(daily_fuel) :
           LET d == daily_fuel[i].date
           IN  /\ daily_fuel[i].primary_source = 0
               /\ daily_fuel[i].backup_source > 0
               /\ DropsOn(PrimaryRowsUsed, ReadingsOf(PrimaryRowsUsed), d) = 50

\* A record with a primary_source of exactly 1.0.
PrimarySourceOfOneLitre ==
    /\ Reported
    /\ \E i \in 1..Len(daily_fuel) : daily_fuel[i].primary_source = 100

\* In a full run no record is emitted at or below 0.1 litres: the backup
\* value of a day is 0 or more than 1.0 as well.
EveryRecordAboveThreshold ==
    Reported =>
        \A i \in 1..Len(daily_fuel) : daily_fuel[i].fuel_consumed_liters > 10

-----------------------------------------------------------------------------
\* The dates of the in-range rows that have an earlier in-range row.
LaterReadingDates(rows) ==
    {rows[i].last_changed \div 100 : i \in 2..Len(rows)}

\* C30: in both extractors the difference between two consecutive in-range
\* readings counts for the calendar date of the later one, also across
\* midnight, and the earliest in-range reading counts for nothing, the
\* readings before start_date having been removed before the differencing.
C30_AttributedToLaterReading ==
    Reported =>
        /\ \A rows \in {PrimaryRowsUsed} : \A st \in {ReadingsOf(rows)} :
               /\ DOMAIN daily_primary \subseteq LaterReadingDates(rows)
               /\ \A d \in DOMAIN daily_primary :
                      daily_primary[d] = DropsOn(rows, st, d)
        /\ \A rows \in {LevelRowsUsed} : \A diffs \in {LevelDiffs(rows)} :
               \A d \in DOMAIN daily_backup :
                   /\ daily_backup[d] = Min(QualifyingDrops(rows, diffs, d), 5000)
                   /\ d \notin LaterReadingDates(rows) => daily_backup[d] = 0

\* A drop of 2 L between 15 Jan 18:00 and 16 Jan 06:00 counted on 16 Jan by
\* the backup extractor, and one of 1 L by the primary extractor.
C30_Witness ==
    /\ Reported
    /\ start_date = 20250115
    /\ end_date = 20250116
    /\ Len(LevelRowsUsed) = 2
    /\ LevelRowsUsed[1].last_changed = 2025011518
    /\ LevelRowsUsed[2].last_changed = 2025011606
    /\ daily_backup = (20250115 :> 0) @@ (20250116 :> 200)
    /\ 20250116 \in DOMAIN daily_primary
    /\ daily_primary[20250116] =
           ReadingsOf(PrimaryRowsUsed)[Len(PrimaryRowsUsed) - 1]
           - ReadingsOf(PrimaryRowsUsed)[Len(PrimaryRowsUsed)]

\* The same two readings with the range starting on 16 Jan: the reading of
\* 15 Jan is removed and the one of 16 Jan, now the earliest, counts nothing.
EarlierReadingRemoved ==
    /\ Reported
    /\ start_date = 20250116
    /\ Len(fuel_history_df) = 2
    /\ fuel_history_df[1].last_changed = 2025011518
    /\ fuel_history_df[1].state = Num(10000)
    /\ fuel_history_df[2].last_changed = 2025011606
    /\ fuel_history_df[2].state = Num(9800)
    /\ \A k \in 1..2 : fuel_history_df[k].entity_id = FuelLevelEntity
    /\ daily_backup = (20250116 :> 0)
    /\ daily_primary = EmptySeries

=============================================================================
